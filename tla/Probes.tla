------------------------------- MODULE Probes -------------------------------
(***************************************************************************)
(* How the assertions of internal/runner talk: one script of steps per     *)
(* assertion, against a peer (a server, or a tool that is started) that    *)
(* answers well or badly, in one piece or in several, closes, or stays     *)
(* silent.  One behaviour is one call of one Check function.  What a reply *)
(* means beyond being the expected one is module Verdicts.                 *)
(***************************************************************************)
EXTENDS Integers, Sequences, FiniteSets

CONSTANTS Kinds,        \* the assertions of the instance, among DOMAIN Script
          MaxTries,     \* addresses of a broker list; polls of a trace backend
          MaxIdle       \* empty frames a websocket server may send

-----------------------------------------------------------------------------
(* The steps of a script.  Dial opens the connection (it has a timeout of  *)
(* its own) and Arm sets the deadline of all that follows.  A reply is     *)
(* `need' parts long; TCP may deliver them one by one.  Once(need) is one  *)
(* Read call, Full(need) reads on until the reply is whole, Lax(need)      *)
(* takes anything; Message and Drain read frames, until one that has a     *)
(* text or for ever (a check with a message to send and no expectation).   *)
(* Exec runs a tool: bounded when its context has a timeout, piped when    *)
(* its output is collected.                                                *)

Dial == [op |-> "dial"]
Arm  == [op |-> "arm"]
Send == [op |-> "send", checked |-> TRUE]
Blurt == [op |-> "send", checked |-> FALSE]
Read(mode, need) == [op |-> "read", mode |-> mode, need |-> need]
Once(need) == Read("once", need)
Full(need) == Read("full", need)
Lax(need)  == Read("lax", need)
Message == [op |-> "read", mode |-> "frame", need |-> 2]
Drain == [op |-> "read", mode |-> "drain", need |-> 2]
Exec(bounded, piped) == [op |-> "exec", bounded |-> bounded, piped |-> piped]

CheckPortListening    == <<Dial>>
(* Fault: the database probe without its deadline. *)
Fault_RedisUnarmed == <<Dial, Send, Once(2), Send, Once(2)>>
CheckRedisPing        == <<Dial, Arm, Send, Once(2), Send, Once(2)>>
CheckMemcachedVersion == <<Dial, Arm, Send, Once(2)>>
CheckPostgresPing     == <<Dial, Arm, Send, Once(1)>>
CheckMySQLPing        == <<Dial, Arm, Once(2)>>
CheckMongoPing        == <<Dial, Arm, Send, Once(2), Once(2)>>
checkKafkaConn        == <<Dial, Arm, Send, Once(2), Lax(2)>>
CheckLDAPBind         == <<Dial, Arm, Send, Once(2)>>
CheckMQTTPing         == <<Dial, Arm, Send, Once(2)>>
CheckNTP              == <<Dial, Arm, Send, Once(1)>>     \* one datagram
(* Fault: the greeting is read by hand before the client reads it (what    *)
(* the comment at assertion_smtp.go:41 warns of).                          *)
Fault_GreetingTwice == <<Dial, Arm, Full(2), Full(2), Send, Full(2)>>
(* The last reply is the one to EHLO: that net/smtp asks with HELO when it  *)
(* is refused, over the same connection and under the same deadline, is    *)
(* left out.                                                               *)
CheckSMTP             == <<Dial, Arm, Full(2), Send, Full(2)>>
wsUpgrade             == <<Arm, Blurt, Once(2)>>
CheckWebSocket        == <<Dial>> \o wsUpgrade \o <<Send, Arm, Message>>
WebSocketSendOnly     == <<Dial>> \o wsUpgrade \o <<Send, Arm, Drain>>
WebSocketConnect      == <<Dial>> \o wsUpgrade
CheckHTTP             == <<Arm, Dial, Send, Full(2)>>
queryJSON             == <<Arm, Dial, Send, Full(2)>>
queryTrace            == queryJSON
CheckSSLCert          == <<Arm, Dial, Full(2)>>
CheckVersion          == <<Exec(TRUE, TRUE)>>
CheckDockerImageExists == <<Exec(TRUE, FALSE)>>
checkExecCredential   == <<Exec(FALSE, TRUE)>>

Script == [port |-> CheckPortListening, redis |-> CheckRedisPing,
           memcached |-> CheckMemcachedVersion, postgres |-> CheckPostgresPing,
           mysql |-> CheckMySQLPing, mongo |-> CheckMongoPing,
           kafka |-> checkKafkaConn, ldap |-> CheckLDAPBind,
           mqtt |-> CheckMQTTPing, ntp |-> CheckNTP, smtp |-> CheckSMTP,
           websocket |-> CheckWebSocket, wsconnect |-> WebSocketConnect,
           wssend |-> WebSocketSendOnly,
           http |-> CheckHTTP, aasa |-> CheckHTTP, otel |-> queryTrace,
           ssl |-> CheckSSLCert, tool |-> CheckVersion,
           quiet |-> CheckDockerImageExists, exec |-> checkExecCredential]

(* The assertions that go on to another address, or ask again, when a try  *)
(* has failed: a broker list, the two places of an association file, the   *)
(* polls of a trace backend.                                               *)
Retrying == {"kafka", "aasa", "otel"}

(* What the other side says: reply by reply, after how many sends, in how  *)
(* many parts, and whether the assertion depends on it.  Servers are not   *)
(* part of this program; this is the protocol the scripts rely on.         *)
Reply(after, size, needed) == [after |-> after, size |-> size, needed |-> needed]
Dialogue ==
  [k \in DOMAIN Script |->
     CASE k = "redis"     -> <<Reply(1, 2, TRUE), Reply(2, 2, TRUE)>>
       [] k = "smtp"      -> <<Reply(0, 2, TRUE), Reply(1, 2, TRUE)>>
       [] k = "mongo"     -> <<Reply(1, 2, TRUE), Reply(1, 2, TRUE)>>
       [] k = "kafka"     -> <<Reply(1, 2, TRUE), Reply(1, 2, FALSE)>>
       [] k = "websocket" -> <<Reply(1, 2, TRUE), Reply(2, 2, TRUE)>>
       [] k = "wssend"    -> <<Reply(1, 2, TRUE), Reply(2, 2, FALSE)>>
       [] k \in {"postgres", "ntp"} -> <<Reply(1, 1, TRUE)>>
       [] k \in {"mysql", "ssl"}    -> <<Reply(0, 2, TRUE)>>
       [] k = "port"      -> << >>
       [] OTHER           -> <<Reply(1, 2, TRUE)>>]

Tools == {"tool", "quiet", "exec"}

ASSUME KindsAssumption == Kinds \subseteq DOMAIN Script
ASSUME BoundsAssumption == MaxTries \in Nat \ {0} /\ MaxIdle \in Nat

-----------------------------------------------------------------------------
VARIABLES
  kind,     \* the assertion that is called
  pc,       \* the step of its script it is at
  left,     \* tries it still has
  conn,     \* its connection: "none", "open" or "closed"
  armed,    \* whether what it does is under a deadline
  sent,     \* messages it has sent on this try
  verdict,  \* "pending", "pass" or "fail"
  said,     \* replies the peer has begun on this try
  wire,     \* parts of the last of them that have arrived and are unread
  due,      \* parts of it that have still to come
  content,  \* what it says: "good", "bad", "empty" or "close"
  idle,     \* empty frames the peer has sent
  child,    \* the tool: "none", "running", "forked", "orphan" or "gone"
  bad,      \* replies of this try that are not the expected ones
  trouble   \* what else has gone wrong between the two on this try

probe == <<kind, pc, left, conn, armed, sent, verdict>>
link  == <<said, wire, due, content, idle>>
vars  == <<kind, pc, left, conn, armed, sent, verdict, said, wire, due, content,
           idle, child, bad, trouble>>

step == Script[kind][pc]
At(op) == verdict = "pending" /\ step.op = op

Init ==
  /\ kind \in Kinds
  /\ left \in IF kind \in Retrying THEN 1 .. MaxTries ELSE {1}
  /\ pc = 1 /\ conn = "none" /\ armed = FALSE /\ sent = 0 /\ verdict = "pending"
  /\ said = 0 /\ wire = 0 /\ due = 0 /\ content = "good" /\ idle = 0
  /\ child = "none" /\ bad = {} /\ trouble = {}

Closed(c) == IF c = "none" THEN "none" ELSE "closed"

(* The step went well.  After the last one the deferred Close runs and the *)
(* assertion passes.                                                       *)
Advance(c) ==
  IF pc = Len(Script[kind])
    THEN verdict' = "pass" /\ conn' = Closed(c) /\ UNCHANGED pc
    ELSE pc' = pc + 1 /\ conn' = c /\ UNCHANGED verdict

(* Fault: the failing path of the last try returns without closing. *)
Fault_GiveUp ==
  /\ IF left > 1
       THEN /\ left' = left - 1 /\ pc' = 1 /\ armed' = FALSE /\ sent' = 0
            /\ conn' = Closed(conn)
            /\ said' = 0 /\ wire' = 0 /\ due' = 0 /\ content' = "good" /\ idle' = 0
            /\ bad' = {} /\ trouble' = {} /\ UNCHANGED verdict
       ELSE /\ verdict' = "fail"
            /\ UNCHANGED <<conn, pc, left, armed, sent, link, bad, trouble>>

(* The step went badly: the connection is closed and the next address, if  *)
(* there is one, is tried from the start.                                  *)
GiveUp ==
  /\ conn' = Closed(conn)
  /\ IF left > 1
       THEN /\ left' = left - 1 /\ pc' = 1 /\ armed' = FALSE /\ sent' = 0
            /\ said' = 0 /\ wire' = 0 /\ due' = 0 /\ content' = "good" /\ idle' = 0
            /\ bad' = {} /\ trouble' = {} /\ UNCHANGED verdict
       ELSE /\ verdict' = "fail"
            /\ UNCHANGED <<pc, left, armed, sent, link, bad, trouble>>

-----------------------------------------------------------------------------
(* Steps of the probe.                                                     *)

Connect ==
  /\ At("dial")
  /\ Advance("open")
  /\ UNCHANGED <<kind, left, armed, sent, link, child, bad, trouble>>

SetDeadline ==
  /\ At("arm")
  /\ armed' = TRUE
  /\ Advance(conn)
  /\ UNCHANGED <<kind, left, sent, link, child, bad, trouble>>

(* A write on a connection the peer has closed is an error, which the      *)
(* websocket upgrade does not look at.                                     *)
Write ==
  /\ At("send")
  /\ "closed" \in trouble => ~step.checked
  /\ sent' = sent + 1
  /\ Advance(conn)
  /\ UNCHANGED <<kind, left, armed, link, child, bad, trouble>>
WriteFails ==
  /\ At("send") /\ step.checked /\ "closed" \in trouble
  /\ GiveUp
  /\ UNCHANGED <<kind, child>>

(* What a read makes of the parts that have arrived.                       *)
(* Fault: the length of a reply is looked at, its content is not. *)
Fault_Accepts == wire = step.need
Accepts == content = "good" /\ wire = step.need /\ step.mode # "drain"
Take ==
  /\ At("read") /\ wire > 0
  /\ \/ step.mode \in {"once", "lax"}
     \/ wire = step.need
  /\ IF step.mode = "lax" \/ Accepts
       THEN /\ Advance(conn)
            /\ wire' = 0 /\ due' = 0
            /\ UNCHANGED <<left, armed, sent, said, content, idle, bad, trouble>>
       ELSE IF \/ step.mode = "frame" /\ content = "empty"
               \/ step.mode = "drain" /\ content # "close"
       THEN /\ wire' = 0
            /\ UNCHANGED <<pc, left, conn, armed, sent, verdict, said, due, content,
                           idle, bad, trouble>>
       ELSE GiveUp
  /\ UNCHANGED <<kind, child>>

(* The peer has closed and there is nothing left to read, or not enough.   *)
ReadFails ==
  /\ At("read") /\ "closed" \in trouble
  /\ IF step.mode \in {"once", "lax"} THEN wire = 0 ELSE wire < step.need
  /\ IF step.mode = "lax"
       THEN Advance(conn) /\ UNCHANGED <<left, armed, sent, link, bad, trouble>>
       ELSE GiveUp
  /\ UNCHANGED <<kind, child>>

(* The deadline passes while the probe waits for more.  It is the peer's   *)
(* doing only if it was the peer's turn to speak.                          *)
Owes == due > 0 \/ (said < Len(Dialogue[kind]) /\ sent >= Dialogue[kind][said + 1].after)
Expire ==
  /\ At("read") /\ armed
  /\ IF step.mode \in {"once", "lax"} THEN wire = 0 ELSE wire < step.need
  /\ LET late == IF Owes THEN trouble \cup {"late"} ELSE trouble
     IN  IF step.mode = "lax"
           THEN Advance(conn) /\ trouble' = late
                /\ UNCHANGED <<left, armed, sent, link, bad>>
           ELSE IF left > 1 THEN GiveUp
           ELSE /\ verdict' = "fail" /\ conn' = Closed(conn) /\ trouble' = late
                /\ UNCHANGED <<pc, left, armed, sent, link, bad>>
  /\ UNCHANGED <<kind, child>>

-----------------------------------------------------------------------------
(* The peer and the network.                                               *)

Refuse ==
  /\ At("dial") /\ kind # "ntp"
  /\ IF left > 1 THEN GiveUp
     ELSE /\ verdict' = "fail" /\ trouble' = trouble \cup {"refused"}
          /\ UNCHANGED <<pc, left, conn, armed, sent, link, bad>>
  /\ UNCHANGED <<kind, child>>

Listening == conn = "open" /\ "closed" \notin trouble

Hangup ==
  /\ Listening /\ kind # "ntp"
  /\ trouble' = trouble \cup {"closed"} /\ due' = 0
  /\ UNCHANGED <<probe, said, wire, content, idle, child, bad>>

Speak ==
  /\ Listening /\ wire = 0 /\ due = 0 /\ Owes
  /\ LET r == Dialogue[kind][said + 1]
     IN  \E c \in {"good", "bad"}, first \in 1 .. r.size :
           /\ content' = c
           /\ wire' = first /\ due' = r.size - first
           /\ bad' = IF c = "bad" THEN bad \cup {said + 1} ELSE bad
           /\ trouble' = IF first < r.size THEN trouble \cup {"fragmented"} ELSE trouble
  /\ said' = said + 1
  /\ UNCHANGED <<probe, idle, child>>

SpeakOn ==
  /\ Listening /\ due > 0
  /\ wire' = wire + due /\ due' = 0
  /\ UNCHANGED <<probe, said, content, idle, child, bad, trouble>>

(* A websocket server that speaks first: its message is in the same        *)
(* segment as the end of the upgrade, and the one Read takes both.         *)
SpeakEarly ==
  /\ kind = "websocket" /\ Listening /\ said = 1 /\ wire = 2
  /\ At("read") /\ step.mode = "once"
  /\ said' = 2 /\ trouble' = trouble \cup {"swallowed"}
  /\ UNCHANGED <<probe, wire, due, content, idle, child, bad>>

(* A ping or another empty frame, and a close frame.                       *)
Idle ==
  /\ Listening /\ At("read") /\ step.mode \in {"frame", "drain"} /\ wire = 0 /\ due = 0
  /\ idle < MaxIdle
  /\ idle' = idle + 1 /\ wire' = 2 /\ content' = "empty"
  /\ UNCHANGED <<probe, said, due, child, bad, trouble>>
CloseFrame ==
  /\ Listening /\ At("read") /\ step.mode \in {"frame", "drain"} /\ wire = 0 /\ due = 0
  /\ wire' = 2 /\ content' = "close" /\ trouble' = trouble \cup {"closing"}
  /\ UNCHANGED <<probe, said, due, idle, child, bad>>

-----------------------------------------------------------------------------
(* Tools.  A tool may leave a process behind that holds its output open;   *)
(* Wait returns when the tool is gone and, if its output is collected,     *)
(* when nothing holds the pipe.                                            *)

Start ==
  /\ At("exec") /\ child = "none"
  /\ child' = "running" /\ armed' = step.bounded
  /\ UNCHANGED <<kind, pc, left, conn, sent, verdict, link, bad, trouble>>

Fork ==
  /\ child = "running" /\ child' = "forked"
  /\ UNCHANGED <<probe, link, bad, trouble>>

Gone(c) == IF c = "forked" THEN "orphan" ELSE "gone"
Exit ==
  /\ child \in {"running", "forked"}
  /\ child' = Gone(child)
  /\ \E c \in {"good", "bad"} : content' = c /\ bad' = IF c = "bad" THEN {1} ELSE {}
  /\ said' = 1
  /\ UNCHANGED <<probe, wire, due, idle, trouble>>

(* The context expires: the tool is killed, what it left behind is not.    *)
Kill ==
  /\ child \in {"running", "forked"} /\ armed
  /\ child' = Gone(child) /\ content' = "bad" /\ trouble' = trouble \cup {"late"}
  /\ UNCHANGED <<probe, said, wire, due, idle, bad>>

OrphanEnds ==
  /\ child = "orphan" /\ child' = "gone"
  /\ UNCHANGED <<probe, link, bad, trouble>>

Wait ==
  /\ At("exec")
  /\ child = "gone" \/ (child = "orphan" /\ ~step.piped)
  /\ IF content = "good" THEN Advance(conn) /\ UNCHANGED <<left, armed, sent, link, bad, trouble>>
                         ELSE GiveUp
  /\ UNCHANGED <<kind, child>>

-----------------------------------------------------------------------------
Own == \/ Connect \/ SetDeadline \/ Write \/ WriteFails \/ Take \/ ReadFails
       \/ Start \/ Wait
Time == Expire \/ Kill
Peer == \/ Refuse \/ Hangup \/ Speak \/ SpeakOn \/ SpeakEarly \/ Idle \/ CloseFrame
        \/ Fork \/ Exit \/ OrphanEnds
Next == Own \/ Time \/ Peer

(* The goroutine that runs the assertion keeps running and time passes;    *)
(* nothing is assumed of the peer.                                         *)
Fairness == WF_vars(Own) /\ WF_vars(Time)
Spec == Init /\ [][Next]_vars /\ Fairness

-----------------------------------------------------------------------------
TypeOK ==
  /\ kind \in Kinds /\ pc \in 1 .. Len(Script[kind]) /\ left \in 1 .. MaxTries
  /\ conn \in {"none", "open", "closed"} /\ armed \in BOOLEAN /\ sent \in 0 .. 2
  /\ verdict \in {"pending", "pass", "fail"}
  /\ said \in 0 .. 2 /\ wire \in 0 .. 2 /\ due \in 0 .. 1
  /\ content \in {"good", "bad", "empty", "close"} /\ idle \in 0 .. MaxIdle
  /\ child \in {"none", "running", "forked", "orphan", "gone"}
  /\ bad \subseteq 1 .. 2
  /\ trouble \subseteq {"refused", "closed", "closing", "late", "fragmented", "swallowed"}

(* An assertion never passes on a conversation that went wrong: every      *)
(* reply it depends on was sent, and was the expected one, and a tool that *)
(* was killed has not passed.  (Only the body of a broker's metadata is    *)
(* allowed to be missing, assertion_kafka.go:109.)                         *)
PassIsEarned ==
  verdict = "pass" =>
    /\ \A i \in DOMAIN Dialogue[kind] :
         Dialogue[kind][i].needed => i <= said /\ i \notin bad
    /\ kind \in Tools => "late" \notin trouble

(* An assertion never fails a peer that behaved: if it failed, the last    *)
(* try was refused, cut off, answered late or answered wrongly.  Replies   *)
(* in several parts are an excuse only for the assertions that read once,  *)
(* and a message swallowed with the upgrade only for the websocket; a      *)
(* websocket check that sends and expects nothing always fails             *)
(* (assertion_ws.go:247).                                                  *)
ReadsOnce(k) == \E i \in DOMAIN Script[k] :
  Script[k][i].op = "read" /\ Script[k][i].mode = "once" /\ Script[k][i].need > 1
FailureIsDeserved ==
  verdict = "fail" =>
    \/ bad # {}
    \/ trouble \cap {"refused", "closed", "closing", "late", "swallowed"} # {}
    \/ "fragmented" \in trouble /\ ReadsOnce(kind)
    \/ kind = "wssend"

(* Whatever way an assertion returns, its connection is closed.            *)
NothingLeftOpen == verdict # "pending" => conn # "open"

(* Every assertion returns, whatever the peer does or fails to do, unless  *)
(* a tool without a timeout does not end or a process that a tool left     *)
(* behind holds the pipe its output is read from.                          *)
Stuck == \/ child \in {"running", "forked"} /\ ~armed
         \/ child = "orphan" /\ step.piped
ProbeReturns == (verdict = "pending") ~> (verdict # "pending" \/ Stuck)

=============================================================================
