-------------------------------- MODULE Kinds --------------------------------
(***************************************************************************)
(* The kinds of assertions, as far as loading, writing and running a       *)
(* configuration all depend on them.                                       *)
(***************************************************************************)

(* A test that has one of these needs no command.                          *)
Standalone ==
  {"port_listening", "process_running", "http", "ssl_cert", "redis_ping", "memcached_version",
   "postgres_ping", "mysql_ping", "grpc_health", "docker_container_running", "docker_image_exists",
   "url_reachable", "service_reachable", "s3_bucket", "version_check", "websocket", "otel_trace",
   "credential_check", "graphql", "dns_resolve", "smtp_ping", "docker_compose_healthy", "ping",
   "mongo_ping", "kafka_broker", "ldap_bind", "mqtt_ping", "ntp_check", "k8s_resource",
   "ios_simulator", "android_emulator", "file_size", "deep_link", "doc_integrity"}
=============================================================================
