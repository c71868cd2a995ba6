----------------------------- MODULE ProbeProofs -----------------------------
(***************************************************************************)
(* Proofs about Probes: an assertion leaves no connection open, passes     *)
(* only on a conversation that went well, and fails only one that did not, *)
(* for any assertions and any bounds.                                      *)
(***************************************************************************)
EXTENDS Probes, TLAPS

-----------------------------------------------------------------------------
(* Facts about the scripts.                                                *)

(* How often a script does something before a step.                        *)
One(k, i, op, j) ==
  IF j < i /\ j \in DOMAIN Script[k] /\ Script[k][j].op = op THEN 1 ELSE 0
Before(k, i, op) ==
  One(k, i, op, 1) + One(k, i, op, 2) + One(k, i, op, 3) + One(k, i, op, 4)
    + One(k, i, op, 5) + One(k, i, op, 6) + One(k, i, op, 7)
Heard(k, i) == Before(k, i, "read")
Sent(k, i)  == Before(k, i, "send")

(* A read comes after a step that sets the deadline.                       *)
ArmedBefore(k, i) == \E j \in 1 .. 7 :
  j < i /\ j \in DOMAIN Script[k] /\ Script[k][j].op = "arm"

(* A read expects the reply that is next, of its size, and after enough    *)
(* was sent for the peer to give it.                                       *)
ReadFits(k, i) ==
  LET s == Script[k][i]
      n == Heard(k, i) + 1
  IN  /\ s.mode \in {"once", "full", "lax", "frame", "drain"} /\ s.need \in 1 .. 2
      /\ n \in DOMAIN Dialogue[k] /\ Dialogue[k][n].size = s.need
      /\ Dialogue[k][n].after <= Sent(k, i)
      /\ s.mode = "lax" => i = Len(Script[k]) /\ ~Dialogue[k][n].needed
      /\ s.mode \in {"frame", "drain"} => i = Len(Script[k]) /\ n = Len(Dialogue[k]) /\ s.need = 2
      /\ s.mode = "drain" => k = "wssend"

Lengths(k) ==
  /\ Len(Script[k]) \in 1 .. 7 /\ DOMAIN Script[k] = 1 .. Len(Script[k])
  /\ Len(Dialogue[k]) \in 0 .. 2 /\ DOMAIN Dialogue[k] = 1 .. Len(Dialogue[k])
  /\ Sent(k, Len(Script[k]) + 1) <= 2
StepsFit(k) == \A i \in DOMAIN Script[k] :
  /\ Script[k][i].op \in {"dial", "arm", "send", "read", "exec"}
  /\ Script[k][i].op = "exec" <=> k \in Tools
  /\ Script[k][i].op = "exec" => Len(Script[k]) = 1 /\ Script[k][i].bounded \in BOOLEAN
  /\ Script[k][i].op = "read" => ReadFits(k, i) /\ ArmedBefore(k, i)
OneDial(k) == \A i, j \in DOMAIN Script[k] :
  Script[k][i].op = "dial" /\ Script[k][j].op = "dial" => i = j
RepliesFit(k) == \A n \in DOMAIN Dialogue[k] :
  /\ Dialogue[k][n].size \in 1 .. 2 /\ Dialogue[k][n].after \in 0 .. 2
  /\ Dialogue[k][n].needed /\ k \notin Tools => n <= Heard(k, Len(Script[k]) + 1)
Fits(k) ==
  /\ Lengths(k) /\ StepsFit(k) /\ OneDial(k) /\ RepliesFit(k)
  /\ k \in Tools => k \notin Retrying /\ Len(Dialogue[k]) = 1

-----------------------------------------------------------------------------
(* The inductive invariant.                                                *)

Quiet == wire = 0 /\ due = 0

(* A connection is open from its dial to the verdict.                      *)
ConnInv ==
  /\ conn = "open" => verdict = "pending" /\ kind \notin Tools
  /\ conn = "open" => \A i \in pc .. Len(Script[kind]) : Script[kind][i].op # "dial"

(* A tool is tried once; what it says it says when it ends, and a killed   *)
(* one says nothing good.                                                  *)
ToolInv ==
  /\ child # "none" => kind \in Tools
  /\ kind \in Tools =>
       /\ left = 1
       /\ child \in {"none", "running", "forked"} => bad = {} /\ trouble = {} /\ verdict = "pending"
       /\ child \in {"gone", "orphan"} /\ content = "good" =>
            said = 1 /\ bad = {} /\ "late" \notin trouble

(* Before step i, the replies that were read were good, and what is on the *)
(* wire is the next one.  The peer has not run ahead, unless its message   *)
(* went in with the upgrade or is one that is drained.                     *)
TalkAt(i) ==
  /\ sent = Sent(kind, i)
  /\ Heard(kind, i) <= said /\ bad \subseteq 1 .. said /\ \A n \in 1 .. Heard(kind, i) : n \notin bad
  /\ ~Quiet /\ content = "good" => Heard(kind, i) < said /\ Heard(kind, i) + 1 \notin bad
  /\ said <= Heard(kind, i) + 1 \/ (said = Len(Dialogue[kind]) /\ "swallowed" \in trouble)
  /\ (Quiet \/ content = "empty") /\ "closed" \notin trouble =>
       \/ said = Heard(kind, i)
       \/ said = Len(Dialogue[kind]) /\ ("swallowed" \in trouble \/ kind = "wssend")

(* A reply is whole unless it came in parts or was cut off.                *)
ReplyAt(i) ==
  ~Quiet /\ content = "good" =>
    /\ Heard(kind, i) + 1 \in DOMAIN Dialogue[kind]
    /\ wire + due <= Dialogue[kind][Heard(kind, i) + 1].size
    /\ "closed" \notin trouble => wire + due = Dialogue[kind][Heard(kind, i) + 1].size
    /\ wire # Dialogue[kind][Heard(kind, i) + 1].size => "fragmented" \in trouble
HeardInv == verdict = "pending" /\ kind \notin Tools => TalkAt(pc) /\ ReplyAt(pc)

(* What is wrong with what the peer says is recorded, and an empty frame   *)
(* comes only to a step that reads frames.                                 *)
WireInv ==
  /\ wire + due <= 2
  /\ content = "bad" => bad # {} \/ "late" \in trouble
  /\ content = "close" => "closing" \in trouble
  /\ content = "empty" /\ verdict = "pending" =>
       step.op = "read" /\ step.mode \in {"frame", "drain"} /\ wire \in {0, 2} /\ due = 0

ProbeInv == TypeOK /\ ConnInv /\ ToolInv /\ HeardInv /\ WireInv
            /\ PassIsEarned /\ FailureIsDeserved

-----------------------------------------------------------------------------
(* Every script fits its dialogue, one lemma for each shape of script.     *)

(* One reply, to one message.                                              *)
LEMMA AskedFits ==
  ASSUME NEW k, k \notin Tools, NEW need \in 1 .. 2, NEW mode \in {"once", "full"},
         Len(Script[k]) = 4, DOMAIN Script[k] = 1 .. 4,
         Script[k][1] \in {Dial, Arm}, Script[k][2] \in {Dial, Arm}, Script[k][1] # Script[k][2],
         Script[k][3] \in {Send, Blurt}, Script[k][4] = Read(mode, need),
         Dialogue[k] = <<Reply(1, need, TRUE)>>
  PROVE  Fits(k)
<1>1. /\ Script[k][1].op \in {"dial", "arm"} /\ Script[k][2].op \in {"dial", "arm"}
      /\ Script[k][1].op # Script[k][2].op
      /\ Script[k][3].op = "send" /\ Script[k][4].op = "read"
  BY DEF Dial, Arm, Send, Blurt, Read
<1>2. Heard(k, 4) = 0 /\ Heard(k, 5) = 1
  BY <1>1 DEF Heard, Before, One
<1>3. Sent(k, 4) = 1 /\ Sent(k, 5) = 1
  BY <1>1 DEF Sent, Before, One
<1>4. /\ Len(Dialogue[k]) = 1 /\ DOMAIN Dialogue[k] = 1 .. 1
      /\ Dialogue[k][1] = Reply(1, need, TRUE)
  OBVIOUS
<1>5. ReadFits(k, 4) /\ ArmedBefore(k, 4)
  <2>1. ReadFits(k, 4)
    BY <1>2, <1>3, <1>4 DEF ReadFits, Once, Full, Read, Reply
  <2>2. ArmedBefore(k, 4)
    BY <1>1 DEF ArmedBefore
  <2> QED
    BY <2>1, <2>2
<1>6. \A i \in DOMAIN Script[k] : i \in {1, 2, 3, 4}
  OBVIOUS
<1>7. Lengths(k)
  BY <1>3, <1>4 DEF Lengths
<1>8. StepsFit(k) /\ OneDial(k)
  BY <1>1, <1>5, <1>6 DEF StepsFit, OneDial
<1>9. RepliesFit(k)
  BY <1>2, <1>4 DEF RepliesFit, Reply
<1> QED
  BY <1>7, <1>8, <1>9 DEF Fits

(* One reply, which the peer begins with.                                  *)
LEMMA GreetedFits ==
  ASSUME NEW k, k \notin Tools, NEW mode \in {"once", "full"},
         Len(Script[k]) = 3, DOMAIN Script[k] = 1 .. 3,
         Script[k][1] \in {Dial, Arm}, Script[k][2] \in {Dial, Arm}, Script[k][1] # Script[k][2],
         Script[k][3] = Read(mode, 2),
         Dialogue[k] = <<Reply(0, 2, TRUE)>>
  PROVE  Fits(k)
<1>1. /\ Script[k][1].op \in {"dial", "arm"} /\ Script[k][2].op \in {"dial", "arm"}
      /\ Script[k][1].op # Script[k][2].op
      /\ Script[k][3].op = "read"
  BY DEF Dial, Arm, Read
<1>2. Heard(k, 3) = 0 /\ Heard(k, 4) = 1
  BY <1>1 DEF Heard, Before, One
<1>3. Sent(k, 3) = 0 /\ Sent(k, 4) = 0
  BY <1>1 DEF Sent, Before, One
<1>4. /\ Len(Dialogue[k]) = 1 /\ DOMAIN Dialogue[k] = 1 .. 1
      /\ Dialogue[k][1] = Reply(0, 2, TRUE)
  OBVIOUS
<1>5. ReadFits(k, 3) /\ ArmedBefore(k, 3)
  <2>1. ReadFits(k, 3)
    BY <1>2, <1>3, <1>4 DEF ReadFits, Once, Full, Read, Reply
  <2>2. ArmedBefore(k, 3)
    BY <1>1 DEF ArmedBefore
  <2> QED
    BY <2>1, <2>2
<1>6. \A i \in DOMAIN Script[k] : i \in {1, 2, 3}
  OBVIOUS
<1>7. Lengths(k)
  BY <1>3, <1>4 DEF Lengths
<1>8. StepsFit(k) /\ OneDial(k)
  BY <1>1, <1>5, <1>6 DEF StepsFit, OneDial
<1>9. RepliesFit(k)
  BY <1>2, <1>4 DEF RepliesFit, Reply
<1> QED
  BY <1>7, <1>8, <1>9 DEF Fits

(* Two messages and their replies.                                         *)
LEMMA TwiceAskedFits ==
  ASSUME NEW k, k \notin Tools,
         Script[k] = <<Dial, Arm, Send, Once(2), Send, Once(2)>>,
         Dialogue[k] = <<Reply(1, 2, TRUE), Reply(2, 2, TRUE)>>
  PROVE  Fits(k)
<1>0. /\ Len(Script[k]) = 6 /\ DOMAIN Script[k] = 1 .. 6
      /\ Script[k][1] = Dial
      /\ Script[k][2] = Arm
      /\ Script[k][3] = Send
      /\ Script[k][4] = Once(2)
      /\ Script[k][5] = Send
      /\ Script[k][6] = Once(2)
  OBVIOUS
<1>1. /\ Script[k][1].op = "dial"
      /\ Script[k][2].op = "arm"
      /\ Script[k][3].op = "send"
      /\ Script[k][4].op = "read"
      /\ Script[k][5].op = "send"
      /\ Script[k][6].op = "read"
  BY <1>0 DEF Dial, Arm, Send, Once, Read
<1>2. Heard(k, 4) = 0 /\ Heard(k, 6) = 1 /\ Heard(k, 7) = 2
  BY <1>0, <1>1 DEF Heard, Before, One
<1>3. Sent(k, 4) = 1 /\ Sent(k, 6) = 2 /\ Sent(k, 7) = 2
  BY <1>0, <1>1 DEF Sent, Before, One
<1>4. /\ Len(Dialogue[k]) = 2 /\ DOMAIN Dialogue[k] = 1 .. 2
      /\ Dialogue[k][1] = Reply(1, 2, TRUE)
      /\ Dialogue[k][2] = Reply(2, 2, TRUE)
  OBVIOUS
<1>5. ReadFits(k, 4) /\ ReadFits(k, 6) /\ ArmedBefore(k, 4) /\ ArmedBefore(k, 6)
  <2>1. ReadFits(k, 4) /\ ReadFits(k, 6)
    BY <1>0, <1>2, <1>3, <1>4 DEF ReadFits, Once, Full, Read, Reply
  <2>2. ArmedBefore(k, 4) /\ ArmedBefore(k, 6)
    BY <1>0, <1>1 DEF ArmedBefore
  <2> QED
    BY <2>1, <2>2
<1>6. \A i \in DOMAIN Script[k] : i \in {1, 2, 3, 4, 5, 6}
  BY <1>0
<1>7. Lengths(k)
  BY <1>0, <1>3, <1>4 DEF Lengths
<1>8. StepsFit(k) /\ OneDial(k)
  BY <1>0, <1>1, <1>5, <1>6 DEF StepsFit, OneDial
<1>9. RepliesFit(k)
  BY <1>0, <1>2, <1>4 DEF RepliesFit, Reply
<1> QED
  BY <1>7, <1>8, <1>9 DEF Fits

(* A reply that is read in two steps, of which the second may be lax.      *)
LEMMA InPartsFits ==
  ASSUME NEW k, k \notin Tools, NEW needed \in BOOLEAN, NEW mode, mode = (IF needed THEN "once" ELSE "lax"),
         Script[k] = <<Dial, Arm, Send, Once(2), Read(mode, 2)>>,
         Dialogue[k] = <<Reply(1, 2, TRUE), Reply(1, 2, needed)>>
  PROVE  Fits(k)
<1>0. /\ Len(Script[k]) = 5 /\ DOMAIN Script[k] = 1 .. 5
      /\ Script[k][1] = Dial
      /\ Script[k][2] = Arm
      /\ Script[k][3] = Send
      /\ Script[k][4] = Once(2)
      /\ Script[k][5] = Read(mode, 2)
  OBVIOUS
<1>1. /\ Script[k][1].op = "dial"
      /\ Script[k][2].op = "arm"
      /\ Script[k][3].op = "send"
      /\ Script[k][4].op = "read"
      /\ Script[k][5].op = "read"
  BY <1>0 DEF Dial, Arm, Send, Once, Read
<1>2. Heard(k, 4) = 0 /\ Heard(k, 5) = 1 /\ Heard(k, 6) = 2
  BY <1>0, <1>1 DEF Heard, Before, One
<1>3. Sent(k, 4) = 1 /\ Sent(k, 5) = 1 /\ Sent(k, 6) = 1
  BY <1>0, <1>1 DEF Sent, Before, One
<1>4. /\ Len(Dialogue[k]) = 2 /\ DOMAIN Dialogue[k] = 1 .. 2
      /\ Dialogue[k][1] = Reply(1, 2, TRUE)
      /\ Dialogue[k][2] = Reply(1, 2, needed)
  OBVIOUS
<1>5. ReadFits(k, 4) /\ ReadFits(k, 5) /\ ArmedBefore(k, 4) /\ ArmedBefore(k, 5)
  <2>1. ReadFits(k, 4) /\ ReadFits(k, 5)
    BY <1>0, <1>2, <1>3, <1>4 DEF ReadFits, Once, Full, Read, Reply
  <2>2. ArmedBefore(k, 4) /\ ArmedBefore(k, 5)
    BY <1>0, <1>1 DEF ArmedBefore
  <2> QED
    BY <2>1, <2>2
<1>6. \A i \in DOMAIN Script[k] : i \in {1, 2, 3, 4, 5}
  BY <1>0
<1>7. Lengths(k)
  BY <1>0, <1>3, <1>4 DEF Lengths
<1>8. StepsFit(k) /\ OneDial(k)
  BY <1>0, <1>1, <1>5, <1>6 DEF StepsFit, OneDial
<1>9. RepliesFit(k)
  BY <1>0, <1>2, <1>4 DEF RepliesFit, Reply
<1> QED
  BY <1>7, <1>8, <1>9 DEF Fits

(* A greeting, a message and its reply.                                    *)
LEMMA GreetedAskedFits ==
  ASSUME NEW k, k \notin Tools,
         Script[k] = <<Dial, Arm, Full(2), Send, Full(2)>>,
         Dialogue[k] = <<Reply(0, 2, TRUE), Reply(1, 2, TRUE)>>
  PROVE  Fits(k)
<1>0. /\ Len(Script[k]) = 5 /\ DOMAIN Script[k] = 1 .. 5
      /\ Script[k][1] = Dial
      /\ Script[k][2] = Arm
      /\ Script[k][3] = Full(2)
      /\ Script[k][4] = Send
      /\ Script[k][5] = Full(2)
  OBVIOUS
<1>1. /\ Script[k][1].op = "dial"
      /\ Script[k][2].op = "arm"
      /\ Script[k][3].op = "read"
      /\ Script[k][4].op = "send"
      /\ Script[k][5].op = "read"
  BY <1>0 DEF Dial, Arm, Send, Full, Read
<1>2. Heard(k, 3) = 0 /\ Heard(k, 5) = 1 /\ Heard(k, 6) = 2
  BY <1>0, <1>1 DEF Heard, Before, One
<1>3. Sent(k, 3) = 0 /\ Sent(k, 5) = 1 /\ Sent(k, 6) = 1
  BY <1>0, <1>1 DEF Sent, Before, One
<1>4. /\ Len(Dialogue[k]) = 2 /\ DOMAIN Dialogue[k] = 1 .. 2
      /\ Dialogue[k][1] = Reply(0, 2, TRUE)
      /\ Dialogue[k][2] = Reply(1, 2, TRUE)
  OBVIOUS
<1>5. ReadFits(k, 3) /\ ReadFits(k, 5) /\ ArmedBefore(k, 3) /\ ArmedBefore(k, 5)
  <2>1. ReadFits(k, 3) /\ ReadFits(k, 5)
    BY <1>0, <1>2, <1>3, <1>4 DEF ReadFits, Once, Full, Read, Reply
  <2>2. ArmedBefore(k, 3) /\ ArmedBefore(k, 5)
    BY <1>0, <1>1 DEF ArmedBefore
  <2> QED
    BY <2>1, <2>2
<1>6. \A i \in DOMAIN Script[k] : i \in {1, 2, 3, 4, 5}
  BY <1>0
<1>7. Lengths(k)
  BY <1>0, <1>3, <1>4 DEF Lengths
<1>8. StepsFit(k) /\ OneDial(k)
  BY <1>0, <1>1, <1>5, <1>6 DEF StepsFit, OneDial
<1>9. RepliesFit(k)
  BY <1>0, <1>2, <1>4 DEF RepliesFit, Reply
<1> QED
  BY <1>7, <1>8, <1>9 DEF Fits

(* An upgrade to websockets, and a conversation of one message.            *)
LEMMA UpgradedFits ==
  ASSUME NEW k, k \notin Tools, NEW needed \in BOOLEAN, NEW mode, mode = (IF needed THEN "frame" ELSE "drain"),
         needed \/ k = "wssend",
         Len(Script[k]) = 7, DOMAIN Script[k] = 1 .. 7,
         Script[k][1] = Dial, Script[k][2] = Arm, Script[k][3] = Blurt, Script[k][4] = Once(2),
         Script[k][5] = Send, Script[k][6] = Arm, Script[k][7] = [op |-> "read", mode |-> mode, need |-> 2],
         Dialogue[k] = <<Reply(1, 2, TRUE), Reply(2, 2, needed)>>
  PROVE  Fits(k)
<1>1. /\ Script[k][1].op = "dial"
      /\ Script[k][2].op = "arm"
      /\ Script[k][3].op = "send"
      /\ Script[k][4].op = "read"
      /\ Script[k][5].op = "send"
      /\ Script[k][6].op = "arm"
      /\ Script[k][7].op = "read"
  BY DEF Dial, Arm, Send, Blurt, Once, Read
<1>2. Heard(k, 4) = 0 /\ Heard(k, 7) = 1 /\ Heard(k, 8) = 2
  BY <1>1 DEF Heard, Before, One
<1>3. Sent(k, 4) = 1 /\ Sent(k, 7) = 2 /\ Sent(k, 8) = 2
  BY <1>1 DEF Sent, Before, One
<1>4. /\ Len(Dialogue[k]) = 2 /\ DOMAIN Dialogue[k] = 1 .. 2
      /\ Dialogue[k][1] = Reply(1, 2, TRUE)
      /\ Dialogue[k][2] = Reply(2, 2, needed)
  OBVIOUS
<1>5. ReadFits(k, 4) /\ ReadFits(k, 7) /\ ArmedBefore(k, 4) /\ ArmedBefore(k, 7)
  <2>1. ReadFits(k, 4) /\ ReadFits(k, 7)
    BY <1>2, <1>3, <1>4 DEF ReadFits, Once, Full, Read, Reply
  <2>2. ArmedBefore(k, 4) /\ ArmedBefore(k, 7)
    BY <1>1 DEF ArmedBefore
  <2> QED
    BY <2>1, <2>2
<1>6. \A i \in DOMAIN Script[k] : i \in {1, 2, 3, 4, 5, 6, 7}
  OBVIOUS
<1>7. Lengths(k)
  BY <1>3, <1>4 DEF Lengths
<1>8. StepsFit(k) /\ OneDial(k)
  BY <1>1, <1>5, <1>6 DEF StepsFit, OneDial
<1>9. RepliesFit(k)
  BY <1>2, <1>4 DEF RepliesFit, Reply
<1> QED
  BY <1>7, <1>8, <1>9 DEF Fits

(* The check of a port only dials.                                         *)
LEMMA PortFits == Fits("port")
<1>1. /\ Len(Script["port"]) = 1 /\ DOMAIN Script["port"] = 1 .. 1 /\ Script["port"][1].op = "dial"
      /\ Len(Dialogue["port"]) = 0 /\ DOMAIN Dialogue["port"] = 1 .. 0
  BY DEF Script, CheckPortListening, Dial, Dialogue
<1>2. Sent("port", 2) = 0
  BY <1>1 DEF Sent, Before, One
<1>3. "port" \notin Tools
  BY DEF Tools
<1> QED
  BY <1>1, <1>2, <1>3 DEF Fits, Lengths, StepsFit, OneDial, RepliesFit

(* The element of a sequence of one.                                       *)
LEMMA TheOne == \A s, e : s = <<e>> => s[1] = e
OBVIOUS
(* What a step that runs a tool looks like.                                *)
LEMMA ExecTyped == \A b, c \in BOOLEAN : Exec(b, c).bounded \in BOOLEAN /\ Exec(b, c).op = "exec"
BY Zenon DEF Exec

(* A tool is one step, and one answer.                                     *)
LEMMA ToolFits == ASSUME NEW k \in Tools PROVE Fits(k)
<1>1. /\ Len(Script[k]) = 1 /\ DOMAIN Script[k] = 1 .. 1 /\ Script[k][1].op = "exec"
      /\ Script[k][1].bounded \in BOOLEAN
  <2>1. Script["tool"] = <<Exec(TRUE, TRUE)>>
    BY DEF Script, CheckVersion
  <2>2. Script["quiet"] = <<Exec(TRUE, FALSE)>>
    BY DEF Script, CheckDockerImageExists
  <2>3. Script["exec"] = <<Exec(FALSE, TRUE)>>
    BY DEF Script, checkExecCredential
  <2>4. Len(Script[k]) = 1 /\ DOMAIN Script[k] = 1 .. 1
    BY <2>1, <2>2, <2>3 DEF Tools
  <2>5. Script[k][1] = Exec(TRUE, TRUE) \/ Script[k][1] = Exec(TRUE, FALSE) \/ Script[k][1] = Exec(FALSE, TRUE)
    <3>1. Script["tool"][1] = Exec(TRUE, TRUE)
      BY <2>1, TheOne, Zenon
    <3>2. Script["quiet"][1] = Exec(TRUE, FALSE)
      BY <2>2, TheOne, Zenon
    <3>3. Script["exec"][1] = Exec(FALSE, TRUE)
      BY <2>3, TheOne, Zenon
    <3> QED
      BY <3>1, <3>2, <3>3, Zenon DEF Tools
  <2>6. Script[k][1].op = "exec" /\ Script[k][1].bounded \in BOOLEAN
    BY <2>5, ExecTyped, Zenon
  <2> QED
    BY <2>4, <2>6
<1>2. Len(Dialogue[k]) = 1 /\ DOMAIN Dialogue[k] = 1 .. 1 /\ Dialogue[k][1] = Reply(1, 2, TRUE)
  <2>1. Dialogue[k] = <<Reply(1, 2, TRUE)>>
    BY DEF Tools, Dialogue, Script
  <2> QED
    BY <2>1
<1>3. Sent(k, 2) = 0
  BY <1>1 DEF Sent, Before, One
<1>4. k \notin Retrying
  BY DEF Tools, Retrying
<1> QED
  BY <1>1, <1>2, <1>3, <1>4 DEF Fits, Lengths, StepsFit, OneDial, RepliesFit, Reply

(* Every script fits what the peer is taken to say.                        *)
LEMMA ScriptsFit == \A k \in DOMAIN Script : Fits(k)
<1>0. /\ Dial # Arm /\ Send \in {Send, Blurt} /\ Blurt \in {Send, Blurt}
      /\ 1 \in 1 .. 2 /\ 2 \in 1 .. 2
  BY DEF Dial, Arm
<1>1. Fits("memcached")
  <2>1. /\ Len(Script["memcached"]) = 4 /\ DOMAIN Script["memcached"] = 1 .. 4
        /\ Script["memcached"][1] = Dial /\ Script["memcached"][2] = Arm
        /\ Script["memcached"][3] = Send /\ Script["memcached"][4] = Read("once", 2)
    BY DEF Script, CheckMemcachedVersion, Once
  <2>2. Dialogue["memcached"] = <<Reply(1, 2, TRUE)>>
    BY DEF Script, Dialogue
  <2>3. "memcached" \notin Tools
    BY DEF Tools
  <2> QED
    BY <1>0, <2>1, <2>2, <2>3, AskedFits, Zenon
<1>2. Fits("ldap")
  <2>1. /\ Len(Script["ldap"]) = 4 /\ DOMAIN Script["ldap"] = 1 .. 4
        /\ Script["ldap"][1] = Dial /\ Script["ldap"][2] = Arm
        /\ Script["ldap"][3] = Send /\ Script["ldap"][4] = Read("once", 2)
    BY DEF Script, CheckLDAPBind, Once
  <2>2. Dialogue["ldap"] = <<Reply(1, 2, TRUE)>>
    BY DEF Script, Dialogue
  <2>3. "ldap" \notin Tools
    BY DEF Tools
  <2> QED
    BY <1>0, <2>1, <2>2, <2>3, AskedFits, Zenon
<1>3. Fits("mqtt")
  <2>1. /\ Len(Script["mqtt"]) = 4 /\ DOMAIN Script["mqtt"] = 1 .. 4
        /\ Script["mqtt"][1] = Dial /\ Script["mqtt"][2] = Arm
        /\ Script["mqtt"][3] = Send /\ Script["mqtt"][4] = Read("once", 2)
    BY DEF Script, CheckMQTTPing, Once
  <2>2. Dialogue["mqtt"] = <<Reply(1, 2, TRUE)>>
    BY DEF Script, Dialogue
  <2>3. "mqtt" \notin Tools
    BY DEF Tools
  <2> QED
    BY <1>0, <2>1, <2>2, <2>3, AskedFits, Zenon
<1>4. Fits("postgres")
  <2>1. /\ Len(Script["postgres"]) = 4 /\ DOMAIN Script["postgres"] = 1 .. 4
        /\ Script["postgres"][1] = Dial /\ Script["postgres"][2] = Arm
        /\ Script["postgres"][3] = Send /\ Script["postgres"][4] = Read("once", 1)
    BY DEF Script, CheckPostgresPing, Once
  <2>2. Dialogue["postgres"] = <<Reply(1, 1, TRUE)>>
    BY DEF Script, Dialogue
  <2>3. "postgres" \notin Tools
    BY DEF Tools
  <2> QED
    BY <1>0, <2>1, <2>2, <2>3, AskedFits, Zenon
<1>5. Fits("ntp")
  <2>1. /\ Len(Script["ntp"]) = 4 /\ DOMAIN Script["ntp"] = 1 .. 4
        /\ Script["ntp"][1] = Dial /\ Script["ntp"][2] = Arm
        /\ Script["ntp"][3] = Send /\ Script["ntp"][4] = Read("once", 1)
    BY DEF Script, CheckNTP, Once
  <2>2. Dialogue["ntp"] = <<Reply(1, 1, TRUE)>>
    BY DEF Script, Dialogue
  <2>3. "ntp" \notin Tools
    BY DEF Tools
  <2> QED
    BY <1>0, <2>1, <2>2, <2>3, AskedFits, Zenon
<1>6. Fits("http")
  <2>1. /\ Len(Script["http"]) = 4 /\ DOMAIN Script["http"] = 1 .. 4
        /\ Script["http"][1] = Arm /\ Script["http"][2] = Dial
        /\ Script["http"][3] = Send /\ Script["http"][4] = Read("full", 2)
    BY DEF Script, CheckHTTP, Full
  <2>2. Dialogue["http"] = <<Reply(1, 2, TRUE)>>
    BY DEF Script, Dialogue
  <2>3. "http" \notin Tools
    BY DEF Tools
  <2> QED
    BY <1>0, <2>1, <2>2, <2>3, AskedFits, Zenon
<1>7. Fits("aasa")
  <2>1. /\ Len(Script["aasa"]) = 4 /\ DOMAIN Script["aasa"] = 1 .. 4
        /\ Script["aasa"][1] = Arm /\ Script["aasa"][2] = Dial
        /\ Script["aasa"][3] = Send /\ Script["aasa"][4] = Read("full", 2)
    BY DEF Script, CheckHTTP, Full
  <2>2. Dialogue["aasa"] = <<Reply(1, 2, TRUE)>>
    BY DEF Script, Dialogue
  <2>3. "aasa" \notin Tools
    BY DEF Tools
  <2> QED
    BY <1>0, <2>1, <2>2, <2>3, AskedFits, Zenon
<1>8. Fits("otel")
  <2>1. /\ Len(Script["otel"]) = 4 /\ DOMAIN Script["otel"] = 1 .. 4
        /\ Script["otel"][1] = Arm /\ Script["otel"][2] = Dial
        /\ Script["otel"][3] = Send /\ Script["otel"][4] = Read("full", 2)
    BY DEF Script, queryTrace, queryJSON, Full
  <2>2. Dialogue["otel"] = <<Reply(1, 2, TRUE)>>
    BY DEF Script, Dialogue
  <2>3. "otel" \notin Tools
    BY DEF Tools
  <2> QED
    BY <1>0, <2>1, <2>2, <2>3, AskedFits, Zenon
<1>9. Fits("wsconnect")
  <2>1. /\ Len(Script["wsconnect"]) = 4 /\ DOMAIN Script["wsconnect"] = 1 .. 4
        /\ Script["wsconnect"][1] = Dial /\ Script["wsconnect"][2] = Arm
        /\ Script["wsconnect"][3] = Blurt /\ Script["wsconnect"][4] = Read("once", 2)
    BY DEF Script, WebSocketConnect, wsUpgrade, Once
  <2>2. Dialogue["wsconnect"] = <<Reply(1, 2, TRUE)>>
    BY DEF Script, Dialogue
  <2>3. "wsconnect" \notin Tools
    BY DEF Tools
  <2> QED
    BY <1>0, <2>1, <2>2, <2>3, AskedFits, Zenon
<1>10. Fits("mysql")
  <2>1. /\ Len(Script["mysql"]) = 3 /\ DOMAIN Script["mysql"] = 1 .. 3
        /\ Script["mysql"][1] = Dial /\ Script["mysql"][2] = Arm /\ Script["mysql"][3] = Read("once", 2)
    BY DEF Script, CheckMySQLPing, Once
  <2>2. Dialogue["mysql"] = <<Reply(0, 2, TRUE)>>
    BY DEF Script, Dialogue
  <2>3. "mysql" \notin Tools
    BY DEF Tools
  <2> QED
    BY <1>0, <2>1, <2>2, <2>3, GreetedFits, Zenon
<1>11. Fits("ssl")
  <2>1. /\ Len(Script["ssl"]) = 3 /\ DOMAIN Script["ssl"] = 1 .. 3
        /\ Script["ssl"][1] = Arm /\ Script["ssl"][2] = Dial /\ Script["ssl"][3] = Read("full", 2)
    BY DEF Script, CheckSSLCert, Full
  <2>2. Dialogue["ssl"] = <<Reply(0, 2, TRUE)>>
    BY DEF Script, Dialogue
  <2>3. "ssl" \notin Tools
    BY DEF Tools
  <2> QED
    BY <1>0, <2>1, <2>2, <2>3, GreetedFits, Zenon
<1>12. Fits("redis")
  <2>1. Script["redis"] = <<Dial, Arm, Send, Once(2), Send, Once(2)>>
    BY DEF Script, CheckRedisPing
  <2>2. Dialogue["redis"] = <<Reply(1, 2, TRUE), Reply(2, 2, TRUE)>>
    BY DEF Script, Dialogue
  <2>3. "redis" \notin Tools
    BY DEF Tools
  <2> QED
    BY <1>0, <2>1, <2>2, <2>3, TwiceAskedFits, Zenon
<1>13. Fits("mongo")
  <2>1. Script["mongo"] = <<Dial, Arm, Send, Once(2), Read("once", 2)>>
    BY DEF Script, CheckMongoPing, Once
  <2>2. Dialogue["mongo"] = <<Reply(1, 2, TRUE), Reply(1, 2, TRUE)>>
    BY DEF Script, Dialogue
  <2>3. "mongo" \notin Tools
    BY DEF Tools
  <2> QED
    BY <1>0, <2>1, <2>2, <2>3, InPartsFits, Zenon
<1>14. Fits("kafka")
  <2>1. Script["kafka"] = <<Dial, Arm, Send, Once(2), Read("lax", 2)>>
    BY DEF Script, checkKafkaConn, Lax
  <2>2. Dialogue["kafka"] = <<Reply(1, 2, TRUE), Reply(1, 2, FALSE)>>
    BY DEF Script, Dialogue
  <2>3. "kafka" \notin Tools
    BY DEF Tools
  <2> QED
    BY <1>0, <2>1, <2>2, <2>3, InPartsFits, Zenon
<1>15. Fits("smtp")
  <2>1. Script["smtp"] = <<Dial, Arm, Full(2), Send, Full(2)>>
    BY DEF Script, CheckSMTP
  <2>2. Dialogue["smtp"] = <<Reply(0, 2, TRUE), Reply(1, 2, TRUE)>>
    BY DEF Script, Dialogue
  <2>3. "smtp" \notin Tools
    BY DEF Tools
  <2> QED
    BY <1>0, <2>1, <2>2, <2>3, GreetedAskedFits, Zenon
<1>16. Fits("websocket")
  <2>1. Script["websocket"] = <<Dial>> \o wsUpgrade \o <<Send, Arm, [op |-> "read", mode |-> "frame", need |-> 2]>>
    BY DEF Script, CheckWebSocket, Message
  <2>2. Dialogue["websocket"] = <<Reply(1, 2, TRUE), Reply(2, 2, TRUE)>>
    BY DEF Script, Dialogue
  <2>3. "websocket" \notin Tools
    BY DEF Tools
  <2>4. /\ Len(Script["websocket"]) = 7 /\ DOMAIN Script["websocket"] = 1 .. 7
        /\ Script["websocket"][1] = Dial /\ Script["websocket"][2] = Arm /\ Script["websocket"][3] = Blurt
        /\ Script["websocket"][4] = Once(2) /\ Script["websocket"][5] = Send /\ Script["websocket"][6] = Arm
        /\ Script["websocket"][7] = [op |-> "read", mode |-> "frame", need |-> 2]
    BY <2>1 DEF wsUpgrade
  <2> QED
    BY <2>2, <2>3, <2>4, UpgradedFits, Zenon
<1>17. Fits("wssend")
  <2>1. Script["wssend"] = <<Dial>> \o wsUpgrade \o <<Send, Arm, [op |-> "read", mode |-> "drain", need |-> 2]>>
    BY DEF Script, WebSocketSendOnly, Drain
  <2>2. Dialogue["wssend"] = <<Reply(1, 2, TRUE), Reply(2, 2, FALSE)>>
    BY DEF Script, Dialogue
  <2>3. "wssend" \notin Tools
    BY DEF Tools
  <2>4. /\ Len(Script["wssend"]) = 7 /\ DOMAIN Script["wssend"] = 1 .. 7
        /\ Script["wssend"][1] = Dial /\ Script["wssend"][2] = Arm /\ Script["wssend"][3] = Blurt
        /\ Script["wssend"][4] = Once(2) /\ Script["wssend"][5] = Send /\ Script["wssend"][6] = Arm
        /\ Script["wssend"][7] = [op |-> "read", mode |-> "drain", need |-> 2]
    BY <2>1 DEF wsUpgrade
  <2> QED
    BY <2>2, <2>3, <2>4, UpgradedFits, Zenon
<1>18. Fits("port") /\ \A k \in {"tool", "quiet", "exec"} : Fits(k)
  BY PortFits, ToolFits DEF Tools
<1> QED
  BY <1>1, <1>2, <1>3, <1>4, <1>5, <1>6, <1>7, <1>8, <1>9, <1>10,
     <1>11, <1>12, <1>13, <1>14, <1>15, <1>16, <1>17, <1>18 DEF Script

-----------------------------------------------------------------------------
(* The invariant is kept.                                                  *)

(* The steps of a script of at most seven.                                 *)
LEMMA InDomain ==
  ASSUME NEW s, Len(s) \in 1 .. 7 /\ DOMAIN s = 1 .. Len(s)
  PROVE  /\ Len(s) \in DOMAIN s
         /\ \A i \in DOMAIN s : i \in 1 .. 7 /\ i <= Len(s) /\ (i # Len(s) => i + 1 \in DOMAIN s)
OBVIOUS

(* What a script has done before a step counts the step before it.         *)
LEMMA CountsUp ==
  ASSUME NEW k, Lengths(k), NEW i \in DOMAIN Script[k], NEW op
  PROVE  /\ Before(k, 1, op) = 0 /\ Before(k, i, op) \in Nat
         /\ Before(k, i + 1, op) = Before(k, i, op) + (IF Script[k][i].op = op THEN 1 ELSE 0)
         /\ Before(k, i + 1, op) <= Before(k, Len(Script[k]) + 1, op)
<1>1. i \in 1 .. 7 /\ Len(Script[k]) \in 1 .. 7 /\ i <= Len(Script[k])
  <2>1. i \in 1 .. Len(Script[k]) /\ Len(Script[k]) \in 1 .. 7
    BY DEF Lengths
  <2> QED
    BY <2>1
<1>2. Before(k, 1, op) = 0
  BY <1>1 DEF Before, One, Lengths
<1>3. \A j \in 1 .. 7 : One(k, i, op, j) \in {0, 1}
  BY DEF One
<1>4. \A j \in 1 .. 7 : One(k, i + 1, op, j) =
        (IF j = i THEN (IF Script[k][i].op = op THEN 1 ELSE 0) ELSE One(k, i, op, j))
  BY <1>1 DEF One
<1>5. One(k, i, op, i) = 0
  BY <1>1 DEF One
<1>6. \A j \in 1 .. 7 : One(k, i + 1, op, j) <= One(k, Len(Script[k]) + 1, op, j)
  BY <1>1 DEF One
<1>7. \A j \in 1 .. 7 : One(k, i + 1, op, j) \in {0, 1} /\ One(k, Len(Script[k]) + 1, op, j) \in {0, 1}
  BY DEF One
<1>8. Before(k, i, op) \in Nat
  BY <1>3 DEF Before
<1>9. Before(k, i + 1, op) <= Before(k, Len(Script[k]) + 1, op)
  BY <1>6, <1>7 DEF Before
<1>10. Before(k, i + 1, op) = Before(k, i, op) + (IF Script[k][i].op = op THEN 1 ELSE 0)
  <2>1. CASE i = 1 BY <2>1, <1>3, <1>4, <1>5 DEF Before
  <2>2. CASE i = 2 BY <2>2, <1>3, <1>4, <1>5 DEF Before
  <2>3. CASE i = 3 BY <2>3, <1>3, <1>4, <1>5 DEF Before
  <2>4. CASE i = 4 BY <2>4, <1>3, <1>4, <1>5 DEF Before
  <2>5. CASE i = 5 BY <2>5, <1>3, <1>4, <1>5 DEF Before
  <2>6. CASE i = 6 BY <2>6, <1>3, <1>4, <1>5 DEF Before
  <2>7. CASE i = 7 BY <2>7, <1>3, <1>4, <1>5 DEF Before
  <2> QED BY <1>1, <2>1, <2>2, <2>3, <2>4, <2>5, <2>6, <2>7
<1> QED
  BY <1>2, <1>8, <1>9, <1>10

(* Where an assertion is.                                                  *)
LEMMA Here ==
  ASSUME TypeOK
  PROVE  /\ kind \in DOMAIN Script /\ Fits(kind) /\ pc \in DOMAIN Script[kind]
         /\ pc \in 1 .. 7 /\ Len(Script[kind]) \in 1 .. 7 /\ pc <= Len(Script[kind])
         /\ pc # Len(Script[kind]) => pc + 1 \in DOMAIN Script[kind]
         /\ Len(Dialogue[kind]) \in 0 .. 2 /\ DOMAIN Dialogue[kind] = 1 .. Len(Dialogue[kind])
         /\ Heard(kind, pc) \in Nat /\ Sent(kind, pc) \in Nat
         /\ Heard(kind, 1) = 0 /\ Sent(kind, 1) = 0
         /\ Heard(kind, pc + 1) = Heard(kind, pc) + (IF step.op = "read" THEN 1 ELSE 0)
         /\ Sent(kind, pc + 1) = Sent(kind, pc) + (IF step.op = "send" THEN 1 ELSE 0)
         /\ Sent(kind, pc + 1) <= 2
         /\ step.op \in {"dial", "arm", "send", "read", "exec"}
         /\ step.op = "exec" <=> kind \in Tools
         /\ step.op = "exec" => Len(Script[kind]) = 1 /\ step.bounded \in BOOLEAN
         /\ step.op = "read" => ReadFits(kind, pc)
<1>1. kind \in DOMAIN Script /\ Fits(kind)
  BY KindsAssumption, ScriptsFit DEF TypeOK
<1>2. Lengths(kind) /\ StepsFit(kind)
  BY <1>1 DEF Fits
<1>3. pc \in DOMAIN Script[kind]
  BY <1>2 DEF Lengths, TypeOK
<1>4. /\ Heard(kind, pc) \in Nat /\ Heard(kind, 1) = 0
      /\ Heard(kind, pc + 1) = Heard(kind, pc) + (IF Script[kind][pc].op = "read" THEN 1 ELSE 0)
  BY <1>2, <1>3, CountsUp DEF Heard
<1>5. /\ Sent(kind, pc) \in Nat /\ Sent(kind, 1) = 0
      /\ Sent(kind, pc + 1) = Sent(kind, pc) + (IF Script[kind][pc].op = "send" THEN 1 ELSE 0)
      /\ Sent(kind, pc + 1) <= Sent(kind, Len(Script[kind]) + 1)
  BY <1>2, <1>3, CountsUp DEF Sent
<1>6. Sent(kind, Len(Script[kind]) + 1) \in Nat
  <2>1. Len(Script[kind]) \in DOMAIN Script[kind]
    <3>1. Len(Script[kind]) \in 1 .. 7 /\ DOMAIN Script[kind] = 1 .. Len(Script[kind])
      BY <1>2 DEF Lengths
    <3> QED
      BY <3>1, InDomain
  <2>2. /\ Before(kind, Len(Script[kind]), "send") \in Nat
        /\ Before(kind, Len(Script[kind]) + 1, "send") = Before(kind, Len(Script[kind]), "send")
             + (IF Script[kind][Len(Script[kind])].op = "send" THEN 1 ELSE 0)
    BY <1>2, <2>1, CountsUp
  <2> QED
    BY <2>2 DEF Sent
<1>7. Sent(kind, pc + 1) <= 2
  BY <1>2, <1>5, <1>6 DEF Lengths
<1>8. /\ step.op \in {"dial", "arm", "send", "read", "exec"}
      /\ step.op = "exec" <=> kind \in Tools
      /\ step.op = "exec" => Len(Script[kind]) = 1 /\ step.bounded \in BOOLEAN
      /\ step.op = "read" => ReadFits(kind, pc)
  BY <1>2, <1>3 DEF StepsFit, step
<1>9. /\ pc \in 1 .. 7 /\ Len(Script[kind]) \in 1 .. 7 /\ pc <= Len(Script[kind])
      /\ pc # Len(Script[kind]) => pc + 1 \in DOMAIN Script[kind]
      /\ Len(Dialogue[kind]) \in 0 .. 2 /\ DOMAIN Dialogue[kind] = 1 .. Len(Dialogue[kind])
  <2>1. Len(Script[kind]) \in 1 .. 7 /\ DOMAIN Script[kind] = 1 .. Len(Script[kind])
    BY <1>2 DEF Lengths
  <2>2. Len(Dialogue[kind]) \in 0 .. 2 /\ DOMAIN Dialogue[kind] = 1 .. Len(Dialogue[kind])
    BY <1>2 DEF Lengths
  <2> QED
    BY <1>3, <2>1, <2>2, InDomain
<1> QED
  BY <1>1, <1>3, <1>4, <1>5, <1>7, <1>8, <1>9 DEF step

(* What the two properties ask of a verdict.                               *)
Earned ==
  /\ \A i \in DOMAIN Dialogue[kind] : Dialogue[kind][i].needed => i <= said /\ i \notin bad
  /\ kind \in Tools => "late" \notin trouble
Deserved ==
  \/ bad # {}
  \/ trouble \cap {"refused", "closed", "closing", "late", "swallowed"} # {}
  \/ "fragmented" \in trouble /\ ReadsOnce(kind)
  \/ kind = "wssend"
Ended == kind \in Tools => child \in {"gone", "orphan"}

(* The two properties, by their verdicts.                                  *)
LEMMA Verdicts ==
  /\ PassIsEarned <=> (verdict = "pass" => Earned)
  /\ FailureIsDeserved <=> (verdict = "fail" => Deserved)
BY DEF PassIsEarned, Earned, FailureIsDeserved, Deserved

(* A try that ends the assertion with a failure.                           *)
LEMMA Fails ==
  ASSUME ProbeInv, verdict = "pending", Ended, verdict' = "fail",
         UNCHANGED <<kind, pc, left, armed, sent, link, bad, child>>,
         conn' \in {"none", "closed"},
         trouble' = trouble \/ (kind \notin Tools /\ \E t \in {"late", "refused"} : trouble' = trouble \cup {t}),
         Deserved'
  PROVE  ProbeInv'
<1>1. UNCHANGED <<said, wire, due, content, idle>>
  BY DEF link
<1>2. TypeOK'
  BY <1>1 DEF ProbeInv, TypeOK
<1>3. ConnInv' /\ HeardInv'
  BY DEF ConnInv, HeardInv
<1>4. ToolInv'
  BY <1>1 DEF ProbeInv, ToolInv, Ended
<1>5. WireInv'
  BY <1>1 DEF ProbeInv, WireInv
<1>6. PassIsEarned' /\ FailureIsDeserved'
  BY Verdicts DEF PassIsEarned, FailureIsDeserved, Deserved
<1> QED
  BY <1>2, <1>3, <1>4, <1>5, <1>6 DEF ProbeInv

(* A try that ends in the next one.                                        *)
LEMMA Retries ==
  ASSUME ProbeInv, verdict = "pending", left > 1, GiveUp, UNCHANGED <<kind, child>>
  PROVE  ProbeInv'
<1>1. /\ left' = left - 1 /\ pc' = 1 /\ armed' = FALSE /\ sent' = 0
      /\ said' = 0 /\ wire' = 0 /\ due' = 0 /\ content' = "good" /\ idle' = 0
      /\ bad' = {} /\ trouble' = {} /\ verdict' = verdict /\ conn' = Closed(conn)
  BY DEF GiveUp
<1>2. kind \notin Tools
  BY DEF ProbeInv, ToolInv
<1>3. conn' \in {"none", "closed"}
  BY <1>1 DEF Closed, ProbeInv, TypeOK
<1>4. /\ Len(Script[kind]) \in 1 .. 7 /\ Heard(kind, 1) = 0 /\ Sent(kind, 1) = 0
      /\ Len(Dialogue[kind]) \in 0 .. 2
  BY Here DEF ProbeInv
<1>5. TypeOK'
  <2>1. pc' \in 1 .. Len(Script[kind])
    BY <1>1, <1>4
  <2>2. left' \in 1 .. MaxTries
    BY <1>1, BoundsAssumption DEF ProbeInv, TypeOK
  <2>3. idle' \in 0 .. MaxIdle
    BY <1>1, BoundsAssumption
  <2>4. kind' \in Kinds /\ child' \in {"none", "running", "forked", "orphan", "gone"}
    BY DEF ProbeInv, TypeOK
  <2>5. said' \in 0 .. 2 /\ wire' \in 0 .. 2 /\ due' \in 0 .. 1 /\ sent' \in 0 .. 2
    BY <1>1
  <2> QED
    BY <1>1, <1>3, <2>1, <2>2, <2>3, <2>4, <2>5 DEF ProbeInv, TypeOK
<1>6. ConnInv' /\ ToolInv'
  BY <1>1, <1>2, <1>3 DEF ProbeInv, ConnInv, ToolInv
<1>7. HeardInv'
  BY <1>1, <1>4 DEF HeardInv, TalkAt, ReplyAt, Quiet
<1>8. WireInv'
  BY <1>1 DEF WireInv
<1>9. PassIsEarned' /\ FailureIsDeserved'
  BY <1>1 DEF PassIsEarned, FailureIsDeserved
<1> QED
  BY <1>5, <1>6, <1>7, <1>8, <1>9 DEF ProbeInv

(* A step that went badly.                                                 *)
LEMMA GivesUp ==
  ASSUME ProbeInv, verdict = "pending", Ended, GiveUp, UNCHANGED <<kind, child>>,
         left = 1 => Deserved
  PROVE  ProbeInv'
<1>1. CASE left > 1
  BY <1>1, Retries
<1>2. CASE ~(left > 1)
  <2>1. left = 1
    BY <1>2, BoundsAssumption DEF ProbeInv, TypeOK
  <2>2. /\ verdict' = "fail" /\ UNCHANGED <<pc, left, armed, sent, link, bad, trouble>>
        /\ conn' = Closed(conn)
    BY <1>2 DEF GiveUp
  <2>3. conn' \in {"none", "closed"}
    BY <2>2 DEF Closed, ProbeInv, TypeOK
  <2>4. Deserved'
    BY <2>1, <2>2 DEF Deserved
  <2> QED
    BY <2>2, <2>3, <2>4, Fails
<1> QED
  BY <1>1, <1>2

(* The last step of a script.                                              *)
LEMMA Passes ==
  ASSUME ProbeInv, verdict = "pending", Ended, verdict' = "pass", conn' \in {"none", "closed"},
         UNCHANGED <<kind, pc, left, child>>, TypeOK', WireInv', Earned',
         kind \in Tools => content' = "good" /\ bad' = bad /\ trouble' = trouble /\ said' = said /\ content = "good"
  PROVE  ProbeInv'
<1>1. ConnInv' /\ HeardInv'
  BY DEF ConnInv, HeardInv
<1>2. ToolInv'
  BY DEF ProbeInv, ToolInv, Ended
<1>3. PassIsEarned' /\ FailureIsDeserved'
  BY DEF PassIsEarned, FailureIsDeserved, Earned
<1> QED
  BY <1>1, <1>2, <1>3 DEF ProbeInv

(* Replies that were heard are all an assertion depends on.                *)
LEMMA HeardIsEarned ==
  ASSUME NEW k, Fits(k), k \notin Tools, NEW h, h = Heard(k, Len(Script[k]) + 1), h \in Nat,
         NEW n \in DOMAIN Dialogue[k], Dialogue[k][n].needed
  PROVE  n \in 1 .. h
<1>1. n <= Heard(k, Len(Script[k]) + 1)
  BY DEF Fits, RepliesFit
<1>2. DOMAIN Dialogue[k] = 1 .. Len(Dialogue[k]) /\ Len(Dialogue[k]) \in 0 .. 2
  BY DEF Fits, Lengths
<1> QED
  BY <1>1, <1>2

(* A step that went well is followed by the next or by the verdict.        *)
Onward ==
  \/ pc = Len(Script[kind]) /\ verdict' = "pass" /\ conn' \in {"none", "closed"} /\ pc' = pc
  \/ /\ pc # Len(Script[kind]) /\ pc' = pc + 1 /\ verdict' = verdict
     /\ conn' = conn \/ (conn' = "open" /\ step.op = "dial")

(* A step that went well, with or without its dial.                        *)
LEMMA AdvanceIsOnward ==
  ASSUME TypeOK
  PROVE  /\ Advance(conn) => Onward
         /\ step.op = "dial" /\ Advance("open") => Onward
BY DEF TypeOK, Advance, Onward, Closed

(* Steps that say something or nothing, and hear nothing.                  *)
LEMMA Goes ==
  ASSUME ProbeInv, verdict = "pending", step.op \in {"dial", "arm", "send"}, Onward,
         armed' \in BOOLEAN, sent' = sent + (IF step.op = "send" THEN 1 ELSE 0),
         UNCHANGED <<kind, left, link, child, bad, trouble>>
  PROVE  ProbeInv'
<1>1. UNCHANGED <<said, wire, due, content, idle>>
  BY DEF link
<1>2. TypeOK
  BY DEF ProbeInv
<1>3. kind \notin Tools /\ Fits(kind) /\ Heard(kind, pc + 1) = Heard(kind, pc)
  BY <1>2, Here
<1>4. sent' = Sent(kind, pc + 1) /\ sent' \in 0 .. 2
  <2>1. sent = Sent(kind, pc)
    BY <1>3 DEF ProbeInv, HeardInv, TalkAt
  <2> QED
    BY <1>2, <2>1, Here
<1>5. content # "empty"
  BY DEF ProbeInv, WireInv
<1>6. CASE pc # Len(Script[kind])
  <2>1. pc' = pc + 1 /\ verdict' = verdict /\ (conn' = conn \/ (conn' = "open" /\ step.op = "dial"))
    BY <1>6 DEF Onward
  <2>2. TypeOK'
    <3>1. pc' \in 1 .. Len(Script[kind]')
      BY <1>2, <1>6, <2>1, Here DEF TypeOK
    <3> QED
      BY <1>1, <1>2, <1>4, <2>1, <3>1 DEF TypeOK
  <2>3. ConnInv'
    <3>1. \A i \in (pc + 1) .. Len(Script[kind]) : conn' = "open" => Script[kind][i].op # "dial"
      <4> SUFFICES ASSUME NEW i \in (pc + 1) .. Len(Script[kind]), conn' = "open"
                   PROVE  Script[kind][i].op # "dial"
        OBVIOUS
      <4>1. i \in DOMAIN Script[kind] /\ i # pc /\ pc \in DOMAIN Script[kind] /\ i \in pc .. Len(Script[kind])
        <5>1. Len(Script[kind]) \in 1 .. 7 /\ DOMAIN Script[kind] = 1 .. Len(Script[kind]) /\ pc \in 1 .. 7
          BY <1>2, <1>3, Here DEF Fits, Lengths
        <5> QED
          BY <1>2, <5>1, Here
      <4>2. CASE conn = "open"
        BY <4>1, <4>2 DEF ProbeInv, ConnInv
      <4>3. CASE step.op = "dial"
        BY <1>3, <4>1, <4>3 DEF Fits, OneDial, step
      <4> QED
        BY <2>1, <4>2, <4>3
    <3> QED
      BY <1>3, <2>1, <3>1 DEF ConnInv
  <2>4. ToolInv'
    BY <1>3 DEF ProbeInv, ToolInv
  <2>5. HeardInv'
    <3>1. TalkAt(pc) /\ ReplyAt(pc)
      BY <1>3 DEF ProbeInv, HeardInv
    <3>2. Heard(kind, pc)' = Heard(kind, pc) /\ sent' = Sent(kind, pc)'
      BY <1>3, <1>4, <2>1
    <3>3. TalkAt(pc)'
      BY <1>1, <3>1, <3>2 DEF TalkAt, Quiet
    <3>4. ReplyAt(pc)'
      BY <1>1, <3>1, <3>2 DEF ReplyAt, Quiet
    <3> QED
      BY <3>3, <3>4 DEF HeardInv
  <2>6. WireInv'
    BY <1>1, <1>5 DEF ProbeInv, WireInv
  <2>7. PassIsEarned' /\ FailureIsDeserved'
    BY <2>1 DEF PassIsEarned, FailureIsDeserved
  <2> QED
    BY <2>2, <2>3, <2>4, <2>5, <2>6, <2>7 DEF ProbeInv
<1>7. CASE pc = Len(Script[kind])
  <2>1. verdict' = "pass" /\ conn' \in {"none", "closed"} /\ pc' = pc
    BY <1>7 DEF Onward
  <2>2. TypeOK'
    BY <1>1, <1>2, <1>4, <2>1 DEF TypeOK
  <2>3. WireInv'
    BY <1>1, <2>1 DEF ProbeInv, WireInv
  <2>4. Earned'
    <3>1. ASSUME NEW n \in DOMAIN Dialogue[kind], Dialogue[kind][n].needed
          PROVE  n <= said /\ n \notin bad
      <4>1. Heard(kind, pc) \in Nat
        BY <1>2, Here
      <4>2. n \in 1 .. Heard(kind, pc)
        BY <1>3, <1>7, <3>1, <4>1, HeardIsEarned
      <4> QED
        BY <1>2, <1>3, <4>1, <4>2 DEF ProbeInv, HeardInv, TalkAt, TypeOK
    <3> QED
      BY <1>1, <1>3, <3>1 DEF Earned
  <2> QED
    BY <1>3, <2>1, <2>2, <2>3, <2>4, Passes DEF Ended
<1> QED
  BY <1>6, <1>7

(* Each step of the probe that hears nothing.                              *)
LEMMA ConnectKeeps == ASSUME ProbeInv, Connect PROVE ProbeInv'
<1>1. verdict = "pending" /\ step.op = "dial" /\ Advance("open")
  BY DEF Connect, At
<1>2. Onward
  BY <1>1, AdvanceIsOnward DEF ProbeInv
<1>3. UNCHANGED <<kind, left, armed, sent, link, child, bad, trouble>>
  BY DEF Connect
<1>4. sent' = sent + (IF step.op = "send" THEN 1 ELSE 0) /\ armed' \in BOOLEAN
  BY <1>1, <1>3 DEF ProbeInv, TypeOK
<1> QED
  BY <1>1, <1>2, <1>3, <1>4, Goes

LEMMA SetDeadlineKeeps == ASSUME ProbeInv, SetDeadline PROVE ProbeInv'
<1>1. verdict = "pending" /\ step.op = "arm" /\ Advance(conn)
  BY DEF SetDeadline, At
<1>2. Onward
  BY <1>1, AdvanceIsOnward DEF ProbeInv
<1>3. armed' = TRUE /\ UNCHANGED <<kind, left, sent, link, child, bad, trouble>>
  BY DEF SetDeadline
<1>4. sent' = sent + (IF step.op = "send" THEN 1 ELSE 0)
  BY <1>1, <1>3 DEF ProbeInv, TypeOK
<1> QED
  BY <1>1, <1>2, <1>3, <1>4, Goes

LEMMA WriteKeeps == ASSUME ProbeInv, Write PROVE ProbeInv'
<1>1. verdict = "pending" /\ step.op = "send" /\ Advance(conn)
  BY DEF Write, At
<1>2. Onward
  BY <1>1, AdvanceIsOnward DEF ProbeInv
<1>3. sent' = sent + 1 /\ UNCHANGED <<kind, left, armed, link, child, bad, trouble>>
  BY DEF Write
<1>4. armed' \in BOOLEAN
  BY <1>3 DEF ProbeInv, TypeOK
<1> QED
  BY <1>1, <1>2, <1>3, <1>4, Goes

LEMMA WriteFailsKeeps == ASSUME ProbeInv, WriteFails PROVE ProbeInv'
<1>1. verdict = "pending" /\ step.op = "send" /\ GiveUp /\ UNCHANGED <<kind, child>>
  BY DEF WriteFails, At
<1>2. Deserved
  BY DEF WriteFails, Deserved
<1>3. Ended
  BY <1>1, Here DEF ProbeInv, Ended
<1> QED
  BY <1>1, <1>2, <1>3, GivesUp

-----------------------------------------------------------------------------
(* Reads.                                                                  *)

(* What a step that reads knows.                                           *)
LEMMA Reading ==
  ASSUME ProbeInv, verdict = "pending", step.op = "read"
  PROVE  /\ TypeOK /\ kind \notin Tools /\ Ended /\ Fits(kind) /\ TalkAt(pc) /\ ReplyAt(pc)
         /\ Heard(kind, pc) \in Nat /\ Heard(kind, pc + 1) = Heard(kind, pc) + 1
         /\ step.mode \in {"once", "full", "lax", "frame", "drain"} /\ step.need \in 1 .. 2
         /\ Heard(kind, pc) + 1 \in DOMAIN Dialogue[kind]
         /\ Heard(kind, pc) + 1 <= Len(Dialogue[kind]) /\ Len(Dialogue[kind]) \in 0 .. 2
         /\ Dialogue[kind][Heard(kind, pc) + 1].size = step.need
         /\ Dialogue[kind][Heard(kind, pc) + 1].after <= sent
         /\ step.mode = "lax" => pc = Len(Script[kind]) /\ ~Dialogue[kind][Heard(kind, pc) + 1].needed
         /\ step.mode \in {"frame", "drain"} =>
              pc = Len(Script[kind]) /\ Heard(kind, pc) + 1 = Len(Dialogue[kind]) /\ step.need = 2
         /\ step.mode = "drain" => kind = "wssend"
<1>1. TypeOK
  BY DEF ProbeInv
<1>2. kind \notin Tools /\ Fits(kind) /\ ReadFits(kind, pc)
  BY <1>1, Here
<1>3. /\ Heard(kind, pc) \in Nat /\ Heard(kind, pc + 1) = Heard(kind, pc) + 1
      /\ Len(Dialogue[kind]) \in 0 .. 2 /\ DOMAIN Dialogue[kind] = 1 .. Len(Dialogue[kind])
  BY <1>1, Here
<1>4. TalkAt(pc) /\ ReplyAt(pc)
  BY <1>2 DEF ProbeInv, HeardInv
<1>5. sent = Sent(kind, pc)
  BY <1>4 DEF TalkAt
<1>6. Heard(kind, pc) + 1 \in DOMAIN Dialogue[kind]
  BY <1>2 DEF ReadFits
<1>7. Heard(kind, pc) + 1 <= Len(Dialogue[kind])
  BY <1>3, <1>6
<1> QED
  BY <1>1, <1>2, <1>3, <1>4, <1>5, <1>6, <1>7 DEF ReadFits, Ended, step

(* A read of the reply it was for is followed by the next step.            *)
LEMMA Accepted ==
  ASSUME ProbeInv, verdict = "pending", step.op = "read", Onward,
         wire > 0, Accepts, wire' = 0, due' = 0,
         UNCHANGED <<kind, left, armed, sent, said, content, idle, child, bad, trouble>>
  PROVE  ProbeInv'
<1> DEFINE h == Heard(kind, pc)
<1>1. content = "good" /\ wire = step.need /\ step.mode # "drain"
  BY DEF Accepts
<1>2. /\ TypeOK /\ kind \notin Tools /\ Fits(kind) /\ Ended
      /\ h \in Nat /\ Heard(kind, pc + 1) = h + 1
  BY Reading
<1>3. ~Quiet /\ h < said /\ h + 1 \notin bad
  <2>1. ~Quiet
    BY <1>2 DEF Quiet, TypeOK
  <2>2. TalkAt(pc)
    BY Reading
  <2> QED
    BY <1>1, <2>1, <2>2 DEF TalkAt
<1>4. bad \subseteq 1 .. said /\ \A n \in 1 .. (h + 1) : n \notin bad
  <2>1. TalkAt(pc)
    BY Reading
  <2> QED
    BY <1>2, <1>3, <2>1 DEF TalkAt
<1>5. said <= h + 1 \/ (said = Len(Dialogue[kind]) /\ "swallowed" \in trouble)
  BY Reading DEF TalkAt
<1>6. said \in Nat
  BY <1>2 DEF TypeOK
<1>7. WireInv'
  BY <1>1, <1>2 DEF ProbeInv, WireInv, TypeOK
<1>8. CASE pc # Len(Script[kind])
  <2>1. pc' = pc + 1 /\ verdict' = verdict /\ conn' = conn
    BY <1>8 DEF Onward
  <2>2. TypeOK'
    <3>1. pc' \in 1 .. Len(Script[kind]')
      BY <1>2, <1>8, <2>1, Here DEF TypeOK
    <3> QED
      BY <1>2, <2>1, <3>1 DEF TypeOK
  <2>3. ConnInv'
    <3>1. Len(Script[kind]) \in 1 .. 7 /\ pc \in 1 .. 7
      BY <1>2, Here
    <3>2. \A i \in (pc + 1) .. Len(Script[kind]) : i \in pc .. Len(Script[kind])
      BY <3>1
    <3> QED
      BY <1>2, <2>1, <3>2 DEF ProbeInv, ConnInv
  <2>4. ToolInv'
    BY <1>2 DEF ProbeInv, ToolInv
  <2>5. HeardInv'
    <3>1. Heard(kind, pc)' = h + 1
      BY <1>2, <2>1
    <3>2. sent' = Sent(kind, pc)'
      <4>1. sent = Sent(kind, pc)
        BY Reading DEF TalkAt
      <4> QED
        BY <1>2, <2>1, <4>1, Here DEF TypeOK
    <3>3. Quiet'
      BY DEF Quiet
    <3>4. TalkAt(pc)'
      BY <1>2, <1>3, <1>4, <1>5, <1>6, <3>1, <3>2, <3>3 DEF TalkAt
    <3>5. ReplyAt(pc)'
      BY <3>3 DEF ReplyAt
    <3> QED
      BY <3>4, <3>5 DEF HeardInv
  <2>6. PassIsEarned' /\ FailureIsDeserved'
    BY <2>1 DEF PassIsEarned, FailureIsDeserved
  <2> QED
    BY <1>7, <2>2, <2>3, <2>4, <2>5, <2>6 DEF ProbeInv
<1>9. CASE pc = Len(Script[kind])
  <2>1. verdict' = "pass" /\ conn' \in {"none", "closed"} /\ pc' = pc
    BY <1>9 DEF Onward
  <2>2. TypeOK'
    BY <1>2, <2>1 DEF TypeOK
  <2>3. Earned'
    <3>1. ASSUME NEW n \in DOMAIN Dialogue[kind], Dialogue[kind][n].needed
          PROVE  n <= said /\ n \notin bad
      <4>1. n \in 1 .. (h + 1)
        BY <1>2, <1>9, <3>1, HeardIsEarned
      <4> QED
        BY <1>2, <1>3, <1>4, <1>6, <4>1
    <3> QED
      BY <1>2, <3>1 DEF Earned
  <2> QED
    BY <1>2, <1>7, <2>1, <2>2, <2>3, Passes
<1> QED
  BY <1>8, <1>9

(* A reply that is not depended on may say anything, or not come.          *)
LEMMA Laxly ==
  ASSUME ProbeInv, verdict = "pending", step.op = "read", step.mode = "lax", Onward,
         UNCHANGED <<kind, left, armed, sent, said, content, idle, child, bad>>,
         (wire' = wire /\ due' = due) \/ (wire' = 0 /\ due' = 0),
         trouble' \in {trouble, trouble \cup {"late"}}
  PROVE  ProbeInv'
<1> DEFINE h == Heard(kind, pc)
<1>1. /\ TypeOK /\ kind \notin Tools /\ Fits(kind) /\ Ended /\ TalkAt(pc)
      /\ h \in Nat /\ Heard(kind, pc + 1) = h + 1
      /\ pc = Len(Script[kind]) /\ ~Dialogue[kind][h + 1].needed
  BY Reading
<1>2. verdict' = "pass" /\ conn' \in {"none", "closed"} /\ pc' = pc
  BY <1>1 DEF Onward
<1>3. TypeOK'
  BY <1>1, <1>2 DEF TypeOK
<1>4. WireInv'
  BY <1>1, <1>2 DEF ProbeInv, WireInv, TypeOK
<1>5. Earned'
  <2>1. ASSUME NEW n \in DOMAIN Dialogue[kind], Dialogue[kind][n].needed
        PROVE  n <= said /\ n \notin bad
    <3>1. n \in 1 .. (h + 1) /\ n # h + 1
      BY <1>1, <2>1, HeardIsEarned
    <3>2. n \in 1 .. h
      BY <1>1, <3>1
    <3> QED
      BY <1>1, <3>2 DEF TalkAt, TypeOK
  <2> QED
    BY <1>1, <2>1 DEF Earned
<1> QED
  BY <1>1, <1>2, <1>3, <1>4, <1>5, Passes

(* A frame that is not what the step waits for is dropped.                 *)
LEMMA Dropped ==
  ASSUME ProbeInv, verdict = "pending", step.op = "read",
         \/ step.mode = "frame" /\ content = "empty"
         \/ step.mode = "drain" /\ content # "close" /\ wire = step.need,
         wire' = 0,
         UNCHANGED <<kind, pc, left, conn, armed, sent, verdict, said, due, content, idle,
                     child, bad, trouble>>
  PROVE  ProbeInv'
<1> DEFINE h == Heard(kind, pc)
<1>1. /\ TypeOK /\ kind \notin Tools /\ TalkAt(pc) /\ ReplyAt(pc)
      /\ h \in Nat /\ pc = Len(Script[kind]) /\ h + 1 = Len(Dialogue[kind]) /\ step.need = 2
      /\ step.mode = "drain" => kind = "wssend"
  BY Reading
<1>2. due = 0
  BY <1>1 DEF ProbeInv, WireInv, TypeOK
<1>3. TypeOK' /\ ConnInv' /\ ToolInv'
  BY DEF ProbeInv, TypeOK, ConnInv, ToolInv
<1>4. WireInv'
  BY <1>1, <1>2 DEF ProbeInv, WireInv, step
<1>5. Quiet' /\ h' = h /\ said \in Nat
  BY <1>1, <1>2 DEF Quiet, TypeOK
<1>6. \/ "closed" \in trouble
      \/ said = h
      \/ said = Len(Dialogue[kind]) /\ ("swallowed" \in trouble \/ kind = "wssend")
  BY <1>1, <1>5 DEF TalkAt
<1>7. TalkAt(pc)'
  BY <1>1, <1>5, <1>6 DEF TalkAt
<1>8. ReplyAt(pc)'
  BY <1>5 DEF ReplyAt
<1>9. HeardInv'
  BY <1>7, <1>8 DEF HeardInv
<1>10. PassIsEarned' /\ FailureIsDeserved'
  BY DEF PassIsEarned, FailureIsDeserved
<1> QED
  BY <1>3, <1>4, <1>9, <1>10 DEF ProbeInv

(* A reply that is not accepted is the peer's doing.                       *)
LEMMA Rejected ==
  ASSUME ProbeInv, verdict = "pending", step.op = "read", wire > 0,
         step.mode \in {"once", "lax"} \/ wire = step.need,
         step.mode # "lax", ~Accepts,
         ~(step.mode = "frame" /\ content = "empty"),
         ~(step.mode = "drain" /\ content # "close")
  PROVE  Deserved
<1> DEFINE h == Heard(kind, pc)
<1>1. /\ TypeOK /\ ReplyAt(pc) /\ pc \in DOMAIN Script[kind]
      /\ step.mode \in {"once", "full", "lax", "frame", "drain"} /\ step.need \in 1 .. 2
      /\ h + 1 \in DOMAIN Dialogue[kind] /\ Dialogue[kind][h + 1].size = step.need
  BY Reading, Here
<1>2. CASE content = "bad"
  BY <1>2 DEF ProbeInv, WireInv, Deserved
<1>3. CASE content = "close"
  BY <1>3 DEF ProbeInv, WireInv, Deserved
<1>4. CASE content = "empty"
  BY <1>4 DEF ProbeInv, WireInv
<1>5. CASE content = "good"
  <2>1. step.mode = "once" /\ wire # step.need
    BY <1>1, <1>5 DEF Accepts
  <2>2. ~Quiet
    BY <1>1 DEF Quiet, TypeOK
  <2>3. "fragmented" \in trouble /\ wire + due <= step.need
    BY <1>1, <1>5, <2>1, <2>2 DEF ReplyAt
  <2>4. step.need > 1
    BY <1>1, <2>1, <2>3 DEF TypeOK
  <2>5. ReadsOnce(kind)
    BY <1>1, <2>1, <2>4 DEF ReadsOnce, step
  <2> QED
    BY <2>3, <2>5 DEF Deserved
<1> QED
  BY <1>1, <1>2, <1>3, <1>4, <1>5 DEF TypeOK

(* A read of what has arrived.                                             *)
LEMMA TakeKeeps == ASSUME ProbeInv, Take PROVE ProbeInv'
<1>1. /\ verdict = "pending" /\ step.op = "read" /\ wire > 0
      /\ step.mode \in {"once", "lax"} \/ wire = step.need
      /\ UNCHANGED <<kind, child>>
  BY DEF Take, At
<1>2. CASE step.mode = "lax" \/ Accepts
  <2>1. /\ Advance(conn) /\ wire' = 0 /\ due' = 0
        /\ UNCHANGED <<left, armed, sent, said, content, idle, bad, trouble>>
    BY <1>2 DEF Take
  <2>2. Onward
    BY <2>1, AdvanceIsOnward DEF ProbeInv
  <2>3. CASE step.mode = "lax"
    BY <1>1, <2>1, <2>2, <2>3, Laxly
  <2>4. CASE Accepts
    BY <1>1, <2>1, <2>2, <2>4, Accepted
  <2> QED
    BY <1>2, <2>3, <2>4
<1>3. CASE ~(step.mode = "lax" \/ Accepts)
  <2>1. CASE \/ step.mode = "frame" /\ content = "empty"
             \/ step.mode = "drain" /\ content # "close"
    <3>1. /\ wire' = 0
          /\ UNCHANGED <<pc, left, conn, armed, sent, verdict, said, due, content,
                         idle, bad, trouble>>
      BY <1>3, <2>1 DEF Take
    <3>2. \/ step.mode = "frame" /\ content = "empty"
          \/ step.mode = "drain" /\ content # "close" /\ wire = step.need
      BY <1>1, <2>1
    <3> QED
      BY <1>1, <3>1, <3>2, Dropped
  <2>2. CASE ~(\/ step.mode = "frame" /\ content = "empty"
               \/ step.mode = "drain" /\ content # "close")
    <3>1. GiveUp
      BY <1>3, <2>2 DEF Take
    <3>2. Deserved
      BY <1>1, <1>3, <2>2, Rejected
    <3>3. Ended
      BY <1>1, Reading
    <3> QED
      BY <1>1, <3>1, <3>2, <3>3, GivesUp
  <2> QED
    BY <2>1, <2>2
<1> QED
  BY <1>2, <1>3

(* A read on a connection the peer has closed.                             *)
LEMMA ReadFailsKeeps == ASSUME ProbeInv, ReadFails PROVE ProbeInv'
<1>1. /\ verdict = "pending" /\ step.op = "read" /\ "closed" \in trouble
      /\ UNCHANGED <<kind, child>>
  BY DEF ReadFails, At
<1>2. CASE step.mode = "lax"
  <2>1. Advance(conn) /\ UNCHANGED <<left, armed, sent, link, bad, trouble>>
    BY <1>2 DEF ReadFails
  <2>2. Onward
    BY <2>1, AdvanceIsOnward DEF ProbeInv
  <2> QED
    <3>1. UNCHANGED <<kind, left, armed, sent, said, content, idle, child, bad>>
      BY <1>1, <2>1 DEF link
    <3>2. ((wire' = wire /\ due' = due) \/ (wire' = 0 /\ due' = 0)) /\ trouble' \in {trouble, trouble \cup {"late"}}
      BY <2>1 DEF link
    <3> QED
      BY <1>1, <1>2, <2>2, <3>1, <3>2, Laxly
<1>3. CASE step.mode # "lax"
  <2>1. GiveUp
    BY <1>3 DEF ReadFails
  <2>2. Deserved
    BY <1>1 DEF Deserved
  <2>3. Ended
    BY <1>1, Reading
  <2> QED
    BY <1>1, <2>1, <2>2, <2>3, GivesUp
<1> QED
  BY <1>2, <1>3

(* A deadline that passes although the peer owes nothing.                  *)
LEMMA NotOwing ==
  ASSUME ProbeInv, verdict = "pending", step.op = "read", step.mode # "lax", ~Owes,
         IF step.mode = "once" THEN wire = 0 ELSE wire < step.need
  PROVE  Deserved
<1> DEFINE h == Heard(kind, pc)
<1>1. /\ TypeOK /\ TalkAt(pc) /\ ReplyAt(pc) /\ h \in Nat
      /\ step.mode \in {"once", "full", "lax", "frame", "drain"} /\ step.need \in 1 .. 2
      /\ h + 1 \in DOMAIN Dialogue[kind] /\ h + 1 <= Len(Dialogue[kind]) /\ Len(Dialogue[kind]) \in 0 .. 2
      /\ Dialogue[kind][h + 1].size = step.need /\ Dialogue[kind][h + 1].after <= sent
      /\ step.mode \in {"frame", "drain"} => step.need = 2
  BY Reading
<1>2. due = 0 /\ ~(said < Len(Dialogue[kind]) /\ sent >= Dialogue[kind][said + 1].after)
  BY <1>1 DEF Owes, TypeOK
<1>3. CASE Quiet
  <2>1. said # h
    <3> SUFFICES ASSUME said = h PROVE FALSE
      OBVIOUS
    <3>1. said < Len(Dialogue[kind]) /\ Dialogue[kind][said + 1].after <= sent
      BY <1>1
    <3> QED
      BY <1>2, <3>1
  <2>2. "closed" \in trouble \/ "swallowed" \in trouble \/ kind = "wssend"
    BY <1>1, <1>3, <2>1 DEF TalkAt
  <2> QED
    BY <2>2 DEF Deserved
<1>4. CASE ~Quiet
  <2>1. wire > 0 /\ wire < step.need /\ step.need = 2 /\ wire = 1
    BY <1>1, <1>2, <1>4 DEF Quiet, TypeOK
  <2>2. CASE content = "bad"
    BY <2>2 DEF ProbeInv, WireInv, Deserved
  <2>3. CASE content = "close"
    BY <2>3 DEF ProbeInv, WireInv, Deserved
  <2>4. CASE content = "empty"
    BY <2>1, <2>4 DEF ProbeInv, WireInv
  <2>5. CASE content = "good"
    <3>1. "closed" \in trouble
      BY <1>1, <1>2, <1>4, <2>1, <2>5 DEF ReplyAt
    <3> QED
      BY <3>1 DEF Deserved
  <2> QED
    BY <1>1, <2>2, <2>3, <2>4, <2>5 DEF TypeOK
<1> QED
  BY <1>3, <1>4

(* A deadline.                                                             *)
LEMMA ExpireKeeps == ASSUME ProbeInv, Expire PROVE ProbeInv'
<1> DEFINE late == IF Owes THEN trouble \cup {"late"} ELSE trouble
<1>1. /\ verdict = "pending" /\ step.op = "read" /\ UNCHANGED <<kind, child>>
      /\ IF step.mode \in {"once", "lax"} THEN wire = 0 ELSE wire < step.need
  BY DEF Expire, At
<1>2. Ended /\ kind \notin Tools
  BY <1>1, Reading
<1>3. CASE step.mode = "lax"
  <2>1. Advance(conn) /\ trouble' = late /\ UNCHANGED <<left, armed, sent, link, bad>>
    BY <1>3 DEF Expire
  <2>2. Onward
    BY <2>1, AdvanceIsOnward DEF ProbeInv
  <2>3. trouble' \in {trouble, trouble \cup {"late"}}
    BY <2>1
  <2> QED
    <3>1. UNCHANGED <<kind, left, armed, sent, said, content, idle, child, bad>>
      BY <1>1, <2>1 DEF link
    <3>2. (wire' = wire /\ due' = due) \/ (wire' = 0 /\ due' = 0)
      BY <2>1 DEF link
    <3> QED
      BY <1>1, <1>3, <2>2, <2>3, <3>1, <3>2, Laxly
<1>4. CASE step.mode # "lax" /\ left > 1
  <2>1. GiveUp
    BY <1>4 DEF Expire
  <2> QED
    BY <1>1, <1>4, <2>1, Retries
<1>5. CASE step.mode # "lax" /\ ~(left > 1)
  <2>1. /\ verdict' = "fail" /\ conn' = Closed(conn) /\ trouble' = late
        /\ UNCHANGED <<pc, left, armed, sent, link, bad>>
    BY <1>5 DEF Expire
  <2>2. conn' \in {"none", "closed"}
    BY <2>1 DEF Closed, ProbeInv, TypeOK
  <2>3. trouble' = trouble \/ (kind \notin Tools /\ \E t \in {"late", "refused"} : trouble' = trouble \cup {t})
    BY <1>2, <2>1
  <2>4. Deserved'
    <3>1. CASE Owes
      BY <2>1, <3>1 DEF Deserved
    <3>2. CASE ~Owes
      <4>1. Deserved
        BY <1>1, <1>5, <3>2, NotOwing
      <4> QED
        BY <1>1, <2>1, <3>2, <4>1 DEF Deserved
    <3> QED
      BY <3>1, <3>2
  <2> QED
    BY <1>1, <1>2, <2>1, <2>2, <2>3, <2>4, Fails
<1> QED
  BY <1>3, <1>4, <1>5

-----------------------------------------------------------------------------
(* The peer.                                                               *)

(* A refused connection.                                                   *)
LEMMA RefuseKeeps == ASSUME ProbeInv, Refuse PROVE ProbeInv'
<1>1. verdict = "pending" /\ step.op = "dial" /\ UNCHANGED <<kind, child>>
  BY DEF Refuse, At
<1>2. TypeOK /\ kind \notin Tools /\ Ended /\ pc \in pc .. Len(Script[kind])
  <2>1. TypeOK
    BY DEF ProbeInv
  <2>2. Len(Script[kind]) \in 1 .. 7 /\ pc \in 1 .. 7 /\ pc <= Len(Script[kind])
    BY <2>1, Here
  <2> QED
    BY <1>1, <2>1, <2>2, Here DEF Ended
<1>3. conn # "open"
  BY <1>1, <1>2 DEF ProbeInv, ConnInv, step
<1>4. CASE left > 1
  BY <1>1, <1>4, Retries DEF Refuse
<1>5. CASE ~(left > 1)
  <2>1. /\ verdict' = "fail" /\ trouble' = trouble \cup {"refused"}
        /\ UNCHANGED <<pc, left, conn, armed, sent, link, bad>>
    BY <1>5 DEF Refuse
  <2>2. conn' \in {"none", "closed"}
    BY <1>2, <1>3, <2>1 DEF TypeOK
  <2>3. trouble' = trouble \/ (kind \notin Tools /\ \E t \in {"late", "refused"} : trouble' = trouble \cup {t})
    BY <1>2, <2>1
  <2>4. Deserved'
    BY <2>1 DEF Deserved
  <2> QED
    BY <1>1, <1>2, <2>1, <2>2, <2>3, <2>4, Fails
<1> QED
  BY <1>4, <1>5

(* While a connection is open the assertion is under way.                  *)
LEMMA Open ==
  ASSUME ProbeInv, conn = "open"
  PROVE  /\ TypeOK /\ verdict = "pending" /\ kind \notin Tools /\ TalkAt(pc) /\ ReplyAt(pc)
         /\ Heard(kind, pc) \in Nat /\ said \in Nat
<1>1. TypeOK /\ verdict = "pending" /\ kind \notin Tools
  BY DEF ProbeInv, ConnInv
<1>2. TalkAt(pc) /\ ReplyAt(pc)
  BY <1>1 DEF ProbeInv, HeardInv
<1>3. Heard(kind, pc) \in Nat
  BY <1>1, Here
<1> QED
  BY <1>1, <1>2, <1>3 DEF TypeOK

(* What the peer does leaves the assertion where it is.                    *)
LEMMA PeerSteps ==
  ASSUME ProbeInv, conn = "open", UNCHANGED <<probe, child>>, TypeOK', WireInv',
         TalkAt(pc)', ReplyAt(pc)'
  PROVE  ProbeInv'
<1>1. UNCHANGED <<kind, pc, left, conn, armed, sent, verdict, child>>
  BY DEF probe
<1>2. verdict = "pending" /\ kind \notin Tools
  BY Open
<1>3. ConnInv' /\ ToolInv' /\ HeardInv'
  BY <1>1, <1>2 DEF ProbeInv, ConnInv, ToolInv, HeardInv
<1>4. PassIsEarned' /\ FailureIsDeserved'
  BY <1>1, <1>2 DEF PassIsEarned, FailureIsDeserved
<1> QED
  BY <1>3, <1>4 DEF ProbeInv

(* The peer closes; what is on the wire stays.                             *)
LEMMA HangupKeeps == ASSUME ProbeInv, Hangup PROVE ProbeInv'
<1>1. /\ conn = "open" /\ trouble' = trouble \cup {"closed"} /\ due' = 0
      /\ UNCHANGED <<kind, pc, left, conn, armed, sent, verdict, said, wire, content, idle, child, bad>>
  BY DEF Hangup, Listening, probe
<1>2. TypeOK /\ TalkAt(pc) /\ ReplyAt(pc) /\ Heard(kind, pc) \in Nat
  BY <1>1, Open
<1>3. ~Quiet' => ~Quiet
  BY <1>1 DEF Quiet
<1>4. TypeOK'
  BY <1>1, <1>2 DEF TypeOK
<1>5. WireInv'
  BY <1>1, <1>2 DEF ProbeInv, WireInv, step, TypeOK
<1>6. TalkAt(pc)'
  BY <1>1, <1>2, <1>3 DEF TalkAt
<1>7. ReplyAt(pc)'
  <2> SUFFICES ASSUME ~Quiet', content' = "good"
               PROVE  /\ Heard(kind, pc) + 1 \in DOMAIN Dialogue[kind]
                      /\ wire <= Dialogue[kind][Heard(kind, pc) + 1].size
                      /\ wire # Dialogue[kind][Heard(kind, pc) + 1].size => "fragmented" \in trouble
    BY <1>1, <1>2 DEF ReplyAt, TypeOK
  <2>1. /\ Heard(kind, pc) + 1 \in DOMAIN Dialogue[kind]
        /\ wire + due <= Dialogue[kind][Heard(kind, pc) + 1].size
        /\ wire # Dialogue[kind][Heard(kind, pc) + 1].size => "fragmented" \in trouble
    BY <1>1, <1>2, <1>3 DEF ReplyAt
  <2>2. Dialogue[kind][Heard(kind, pc) + 1].size \in 1 .. 2
    BY <1>2, <2>1, Here DEF Fits, RepliesFit
  <2> QED
    BY <1>2, <2>1, <2>2 DEF TypeOK
<1> QED
  BY <1>1, <1>4, <1>5, <1>6, <1>7, PeerSteps DEF probe

(* The peer gives the reply that is its turn.                              *)
LEMMA SpeakKeeps == ASSUME ProbeInv, Speak PROVE ProbeInv'
<1> DEFINE h == Heard(kind, pc)
           r == Dialogue[kind][said + 1]
<1>1. /\ conn = "open" /\ "closed" \notin trouble /\ wire = 0 /\ due = 0 /\ Owes
      /\ said' = said + 1 /\ UNCHANGED <<kind, pc, left, conn, armed, sent, verdict, idle, child>>
  BY DEF Speak, Listening, probe
<1>2. PICK c \in {"good", "bad"}, first \in 1 .. r.size :
        /\ content' = c
        /\ wire' = first /\ due' = r.size - first
        /\ bad' = IF c = "bad" THEN bad \cup {said + 1} ELSE bad
        /\ trouble' = IF first < r.size THEN trouble \cup {"fragmented"} ELSE trouble
  BY DEF Speak
<1>3. TypeOK /\ TalkAt(pc) /\ h \in Nat /\ said \in Nat
  BY <1>1, Open
<1>4. said = h /\ said + 1 \in DOMAIN Dialogue[kind] /\ said + 1 <= Len(Dialogue[kind])
      /\ Len(Dialogue[kind]) \in 0 .. 2 /\ r.size \in 1 .. 2
  <2>1. said < Len(Dialogue[kind])
    BY <1>1 DEF Owes
  <2>2. said = h
    BY <1>1, <1>3, <2>1 DEF TalkAt, Quiet
  <2>3. Len(Dialogue[kind]) \in 0 .. 2 /\ DOMAIN Dialogue[kind] = 1 .. Len(Dialogue[kind]) /\ Fits(kind)
    BY <1>3, Here
  <2>4. said + 1 \in DOMAIN Dialogue[kind] /\ said + 1 <= Len(Dialogue[kind])
    BY <1>3, <2>1, <2>3
  <2> QED
    BY <2>2, <2>3, <2>4 DEF Fits, RepliesFit
<1>5. wire' \in 1 .. 2 /\ due' \in 0 .. 1 /\ wire' + due' = r.size /\ ~Quiet'
  BY <1>2, <1>4 DEF Quiet
<1>6. /\ bad \subseteq 1 .. said /\ bad' \subseteq 1 .. said' /\ said' \in 0 .. 2
      /\ \A n \in 1 .. h : n \notin bad'
      /\ content' = "good" => h + 1 \notin bad'
  <2>1. bad \subseteq 1 .. said /\ \A n \in 1 .. h : n \notin bad
    BY <1>3 DEF TalkAt
  <2>2. said' \in 0 .. 2
    BY <1>1, <1>3, <1>4
  <2>3. bad' = bad \/ bad' = bad \cup {h + 1}
    BY <1>2, <1>4
  <2>4. content' = "good" => bad' = bad
    BY <1>2
  <2>5. h + 1 \notin bad
    BY <1>3, <1>4, <2>1
  <2>6. bad' \subseteq 1 .. said'
    <3> SUFFICES ASSUME NEW n \in bad' PROVE n \in 1 .. said'
      OBVIOUS
    <3>1. n \in bad \/ n = said + 1
      BY <1>4, <2>3
    <3>2. n \in bad => n \in 1 .. said
      BY <2>1
    <3> QED
      BY <1>1, <1>3, <3>1, <3>2
  <2>7. \A n \in 1 .. h : n \notin bad'
    BY <1>3, <2>1, <2>3
  <2> QED
    BY <2>1, <2>2, <2>4, <2>5, <2>6, <2>7
<1>7. TypeOK'
  <2>1. bad' \subseteq 1 .. 2
    BY <1>6
  <2>2. trouble' \subseteq {"refused", "closed", "closing", "late", "fragmented", "swallowed"}
    BY <1>2, <1>3 DEF TypeOK
  <2> QED
    BY <1>1, <1>2, <1>3, <1>5, <1>6, <2>1, <2>2 DEF TypeOK
<1>8. WireInv'
  <2>1. content' = "bad" => bad' # {}
    BY <1>2
  <2>2. content' \in {"good", "bad"} /\ wire' + due' <= 2
    BY <1>2, <1>4, <1>5
  <2> HIDE DEF r, h
  <2> QED
    BY <2>1, <2>2 DEF WireInv
<1>9. TalkAt(pc)'
  <2>1. sent' = Sent(kind, pc)' /\ h' = h /\ said' = h + 1
    BY <1>1, <1>3, <1>4 DEF TalkAt
  <2>2. content' # "empty"
    BY <1>2
  <2> QED
    BY <1>3, <1>5, <1>6, <2>1, <2>2 DEF TalkAt
<1>10. ReplyAt(pc)'
  <2>1. wire' # r.size => "fragmented" \in trouble'
    BY <1>2, <1>4
  <2>2. Dialogue[kind][h + 1] = r /\ h + 1 \in DOMAIN Dialogue[kind] /\ h' = h
    BY <1>1, <1>4
  <2>3. wire' + due' <= r.size
    BY <1>4, <1>5
  <2> HIDE DEF r, h
  <2>4. kind' = kind /\ wire' + due' = r.size
    BY <1>1, <1>5
  <2> QED
    BY <2>1, <2>2, <2>3, <2>4 DEF ReplyAt, h
<1> QED
  BY <1>1, <1>7, <1>8, <1>9, <1>10, PeerSteps DEF probe

(* The rest of a reply arrives.                                            *)
LEMMA SpeakOnKeeps == ASSUME ProbeInv, SpeakOn PROVE ProbeInv'
<1>1. /\ conn = "open" /\ "closed" \notin trouble /\ due > 0 /\ wire' = wire + due /\ due' = 0
      /\ UNCHANGED <<kind, pc, left, conn, armed, sent, verdict, said, content, idle, child, bad, trouble>>
  BY DEF SpeakOn, Listening, probe
<1>2. TypeOK /\ TalkAt(pc) /\ ReplyAt(pc) /\ Heard(kind, pc) \in Nat /\ verdict = "pending"
  BY <1>1, Open
<1>3. ~Quiet /\ ~Quiet' /\ content # "empty" /\ wire' \in 0 .. 2 /\ wire' + due' = wire + due
  BY <1>1, <1>2 DEF Quiet, ProbeInv, WireInv, TypeOK
<1>4. TypeOK'
  BY <1>1, <1>2, <1>3 DEF TypeOK
<1>5. WireInv'
  BY <1>1, <1>3 DEF ProbeInv, WireInv
<1>6. TalkAt(pc)'
  BY <1>1, <1>2, <1>3 DEF TalkAt
<1>7. ReplyAt(pc)'
  BY <1>1, <1>2, <1>3 DEF ReplyAt, TypeOK
<1> QED
  BY <1>1, <1>4, <1>5, <1>6, <1>7, PeerSteps DEF probe

(* A message that goes in with the upgrade.                                *)
LEMMA SpeakEarlyKeeps == ASSUME ProbeInv, SpeakEarly PROVE ProbeInv'
<1>1. /\ kind = "websocket" /\ conn = "open" /\ said = 1 /\ wire = 2 /\ step.op = "read" /\ step.mode = "once"
      /\ said' = 2 /\ trouble' = trouble \cup {"swallowed"}
      /\ UNCHANGED <<kind, pc, left, conn, armed, sent, verdict, wire, due, content, idle, child, bad>>
  BY DEF SpeakEarly, Listening, At, probe
<1>2. TypeOK /\ TalkAt(pc) /\ ReplyAt(pc) /\ Heard(kind, pc) \in Nat
  BY <1>1, Open
<1>3. Len(Dialogue[kind]) = 2
  <2>1. Dialogue["websocket"] = <<Reply(1, 2, TRUE), Reply(2, 2, TRUE)>>
    BY DEF Script, Dialogue
  <2>2. Len(Dialogue["websocket"]) = 2
    BY <2>1
  <2> QED
    BY <1>1, <2>2
<1>4. Quiet' <=> Quiet
  BY <1>1 DEF Quiet
<1>5. TypeOK'
  BY <1>1, <1>2 DEF TypeOK
<1>6. WireInv'
  BY <1>1 DEF ProbeInv, WireInv, step
<1>7. TalkAt(pc)'
  BY <1>1, <1>2, <1>3, <1>4 DEF TalkAt
<1>8. ReplyAt(pc)'
  BY <1>1, <1>2, <1>4 DEF ReplyAt
<1> QED
  BY <1>1, <1>5, <1>6, <1>7, <1>8, PeerSteps DEF probe

(* An empty frame, and below it a close frame.                             *)
LEMMA IdleKeeps == ASSUME ProbeInv, Idle PROVE ProbeInv'
<1>1. /\ conn = "open" /\ step.op = "read" /\ step.mode \in {"frame", "drain"} /\ wire = 0 /\ due = 0
      /\ idle < MaxIdle /\ idle' = idle + 1 /\ wire' = 2 /\ content' = "empty"
      /\ UNCHANGED <<kind, pc, left, conn, armed, sent, verdict, said, due, child, bad, trouble>>
  BY DEF Idle, Listening, At, probe
<1>2. TypeOK /\ TalkAt(pc) /\ Heard(kind, pc) \in Nat
  BY <1>1, Open
<1>3. Quiet /\ idle' \in 0 .. MaxIdle
  BY <1>1, <1>2, BoundsAssumption DEF Quiet, TypeOK
<1>4. TypeOK'
  BY <1>1, <1>2, <1>3 DEF TypeOK
<1>5. WireInv'
  BY <1>1 DEF WireInv, step
<1>6. TalkAt(pc)'
  BY <1>1, <1>2, <1>3 DEF TalkAt
<1>7. ReplyAt(pc)'
  BY <1>1 DEF ReplyAt
<1> QED
  BY <1>1, <1>4, <1>5, <1>6, <1>7, PeerSteps DEF probe

LEMMA CloseFrameKeeps == ASSUME ProbeInv, CloseFrame PROVE ProbeInv'
<1>1. /\ conn = "open" /\ wire = 0 /\ due = 0
      /\ wire' = 2 /\ content' = "close" /\ trouble' = trouble \cup {"closing"}
      /\ UNCHANGED <<kind, pc, left, conn, armed, sent, verdict, said, due, idle, child, bad>>
  BY DEF CloseFrame, Listening, probe
<1>2. TypeOK /\ TalkAt(pc) /\ Heard(kind, pc) \in Nat
  BY <1>1, Open
<1>3. ~Quiet'
  BY <1>1 DEF Quiet
<1>4. TypeOK'
  BY <1>1, <1>2 DEF TypeOK
<1>5. WireInv'
  BY <1>1 DEF WireInv
<1>6. TalkAt(pc)'
  BY <1>1, <1>2, <1>3 DEF TalkAt
<1>7. ReplyAt(pc)'
  BY <1>1 DEF ReplyAt
<1> QED
  BY <1>1, <1>4, <1>5, <1>6, <1>7, PeerSteps DEF probe

-----------------------------------------------------------------------------
(* Tools.                                                                  *)

(* A tool that is there is the one step of its assertion.                  *)
LEMMA AtTool ==
  ASSUME ProbeInv, kind \in Tools
  PROVE  /\ TypeOK /\ conn # "open" /\ left = 1 /\ step.op = "exec" /\ step.bounded \in BOOLEAN
         /\ pc = 1 /\ Len(Script[kind]) = 1 /\ Fits(kind)
<1>1. TypeOK
  BY DEF ProbeInv
<1>2. /\ step.op = "exec" /\ step.bounded \in BOOLEAN /\ Len(Script[kind]) = 1
      /\ pc \in 1 .. 7 /\ pc <= Len(Script[kind]) /\ Fits(kind)
  BY <1>1, Here
<1> QED
  BY <1>1, <1>2 DEF ProbeInv, ConnInv, ToolInv

(* What a tool does leaves the assertion where it is.                      *)
LEMMA ToolSteps ==
  ASSUME ProbeInv, kind \in Tools, UNCHANGED <<kind, pc, left, conn, sent, verdict, wire, due, idle>>,
         TypeOK', ToolInv', WireInv', verdict = "pending" \/ UNCHANGED <<said, bad, trouble>>
  PROVE  ProbeInv'
<1>1. conn # "open"
  BY AtTool
<1>2. ConnInv' /\ HeardInv'
  BY <1>1 DEF ConnInv, HeardInv
<1>3. PassIsEarned' /\ FailureIsDeserved'
  BY DEF ProbeInv, PassIsEarned, FailureIsDeserved
<1> QED
  BY <1>2, <1>3 DEF ProbeInv

(* Each step in the life of a tool.                                        *)
LEMMA StartKeeps == ASSUME ProbeInv, Start PROVE ProbeInv'
<1>1. /\ verdict = "pending" /\ step.op = "exec" /\ child = "none" /\ child' = "running" /\ armed' = step.bounded
      /\ UNCHANGED <<kind, pc, left, conn, sent, verdict, said, wire, due, content, idle, bad, trouble>>
  BY DEF Start, At, link
<1>2. TypeOK
  BY DEF ProbeInv
<1>3. kind \in Tools
  BY <1>1, <1>2, Here
<1>4. armed' \in BOOLEAN
  BY <1>1, <1>3, AtTool
<1>5. TypeOK'
  BY <1>1, <1>2, <1>4 DEF TypeOK
<1>6. ToolInv'
  BY <1>1, <1>3 DEF ProbeInv, ToolInv
<1>7. WireInv'
  BY <1>1 DEF ProbeInv, WireInv, step
<1> QED
  BY <1>1, <1>3, <1>5, <1>6, <1>7, ToolSteps

LEMMA ForkKeeps == ASSUME ProbeInv, Fork PROVE ProbeInv'
<1>1. /\ child = "running" /\ child' = "forked"
      /\ UNCHANGED <<kind, pc, left, conn, armed, sent, verdict, said, wire, due, content, idle, bad, trouble>>
  BY DEF Fork, link, probe
<1>2. kind \in Tools
  BY <1>1 DEF ProbeInv, ToolInv
<1>3. TypeOK'
  BY <1>1 DEF ProbeInv, TypeOK
<1>4. ToolInv' /\ WireInv'
  BY <1>1, <1>2 DEF ProbeInv, ToolInv, WireInv, step
<1> QED
  BY <1>1, <1>2, <1>3, <1>4, ToolSteps

LEMMA ExitKeeps == ASSUME ProbeInv, Exit PROVE ProbeInv'
<1>1. /\ child \in {"running", "forked"} /\ child' \in {"orphan", "gone"} /\ said' = 1
      /\ UNCHANGED <<kind, pc, left, conn, armed, sent, verdict, wire, due, idle, trouble>>
  BY DEF Exit, Gone, probe
<1>2. PICK c \in {"good", "bad"} : content' = c /\ bad' = IF c = "bad" THEN {1} ELSE {}
  BY DEF Exit
<1>3. kind \in Tools /\ left = 1 /\ trouble = {} /\ verdict = "pending"
  BY <1>1 DEF ProbeInv, ToolInv
<1>4. TypeOK'
  BY <1>1, <1>2 DEF ProbeInv, TypeOK
<1>5. ToolInv'
  BY <1>1, <1>2, <1>3 DEF ToolInv
<1>6. WireInv'
  BY <1>1, <1>2 DEF ProbeInv, WireInv
<1> QED
  BY <1>1, <1>3, <1>4, <1>5, <1>6, ToolSteps

LEMMA KillKeeps == ASSUME ProbeInv, Kill PROVE ProbeInv'
<1>1. /\ child \in {"running", "forked"} /\ child' \in {"orphan", "gone"} /\ content' = "bad"
      /\ trouble' = trouble \cup {"late"}
      /\ UNCHANGED <<kind, pc, left, conn, armed, sent, verdict, said, wire, due, idle, bad>>
  BY DEF Kill, Gone, probe
<1>2. kind \in Tools /\ left = 1 /\ verdict = "pending"
  BY <1>1 DEF ProbeInv, ToolInv
<1>3. TypeOK'
  BY <1>1 DEF ProbeInv, TypeOK
<1>4. ToolInv'
  BY <1>1, <1>2 DEF ToolInv
<1>5. WireInv'
  BY <1>1 DEF ProbeInv, WireInv
<1> QED
  BY <1>1, <1>2, <1>3, <1>4, <1>5, ToolSteps

LEMMA OrphanEndsKeeps == ASSUME ProbeInv, OrphanEnds PROVE ProbeInv'
<1>1. /\ child = "orphan" /\ child' = "gone"
      /\ UNCHANGED <<kind, pc, left, conn, armed, sent, verdict, said, wire, due, content, idle, bad, trouble>>
  BY DEF OrphanEnds, link, probe
<1>2. kind \in Tools
  BY <1>1 DEF ProbeInv, ToolInv
<1>3. TypeOK'
  BY <1>1 DEF ProbeInv, TypeOK
<1>4. ToolInv' /\ WireInv'
  BY <1>1, <1>2 DEF ProbeInv, ToolInv, WireInv, step
<1> QED
  BY <1>1, <1>2, <1>3, <1>4, ToolSteps

(* The end of the wait for a tool is the verdict.                          *)
LEMMA WaitKeeps == ASSUME ProbeInv, Wait PROVE ProbeInv'
<1>1. /\ verdict = "pending" /\ step.op = "exec" /\ child \in {"gone", "orphan"} /\ UNCHANGED <<kind, child>>
  BY DEF Wait, At
<1>2. kind \in Tools /\ Ended
  BY <1>1, Here DEF ProbeInv, Ended
<1>3. TypeOK /\ conn # "open" /\ left = 1 /\ pc = 1 /\ Len(Script[kind]) = 1 /\ Fits(kind)
  BY <1>2, AtTool
<1>4. CASE content = "good"
  <2>1. Advance(conn) /\ UNCHANGED <<left, armed, sent, said, wire, due, content, idle, bad, trouble>>
    BY <1>4 DEF Wait, link
  <2>2. verdict' = "pass" /\ conn' \in {"none", "closed"} /\ pc' = pc
    BY <1>3, <2>1, AdvanceIsOnward DEF Onward
  <2>3. TypeOK'
    BY <1>1, <1>3, <2>1, <2>2 DEF TypeOK
  <2>4. WireInv'
    BY <1>1, <1>4, <2>1 DEF ProbeInv, WireInv
  <2>5. said = 1 /\ bad = {} /\ "late" \notin trouble
    BY <1>1, <1>2, <1>4 DEF ProbeInv, ToolInv
  <2>6. Len(Dialogue[kind]) = 1 /\ DOMAIN Dialogue[kind] = 1 .. Len(Dialogue[kind])
    BY <1>2, <1>3 DEF Fits, Lengths
  <2>7. Earned'
    BY <1>1, <2>1, <2>5, <2>6 DEF Earned
  <2> QED
    BY <1>1, <1>2, <1>4, <2>1, <2>2, <2>3, <2>4, <2>7, Passes
<1>5. CASE content # "good"
  <2>1. GiveUp
    BY <1>5 DEF Wait
  <2>2. Deserved
    BY <1>1, <1>3, <1>5 DEF ProbeInv, WireInv, Deserved, TypeOK
  <2> QED
    BY <1>1, <1>2, <2>1, <2>2, GivesUp
<1> QED
  BY <1>4, <1>5

-----------------------------------------------------------------------------
(* The invariant holds at the start, and each step keeps it.               *)
LEMMA InvInit == ASSUME Init PROVE ProbeInv
<1>1. /\ kind \in Kinds /\ pc = 1 /\ conn = "none" /\ armed = FALSE /\ sent = 0 /\ verdict = "pending"
      /\ said = 0 /\ wire = 0 /\ due = 0 /\ content = "good" /\ idle = 0
      /\ child = "none" /\ bad = {} /\ trouble = {}
      /\ left \in IF kind \in Retrying THEN 1 .. MaxTries ELSE {1}
  BY DEF Init
<1>2. kind \in DOMAIN Script /\ Fits(kind)
  BY <1>1, KindsAssumption, ScriptsFit
<1>3. Len(Script[kind]) \in 1 .. 7 /\ DOMAIN Script[kind] = 1 .. Len(Script[kind]) /\ Lengths(kind)
  BY <1>2 DEF Fits, Lengths
<1>4. 1 \in DOMAIN Script[kind]
  BY <1>3, InDomain
<1>5. left \in 1 .. MaxTries /\ (kind \in Tools => left = 1)
  BY <1>1, <1>2, BoundsAssumption DEF Fits
<1>6. TypeOK
  <2>1. pc \in 1 .. Len(Script[kind]) /\ idle \in 0 .. MaxIdle
    BY <1>1, <1>3, <1>4, BoundsAssumption
  <2>2. said \in 0 .. 2 /\ wire \in 0 .. 2 /\ due \in 0 .. 1 /\ sent \in 0 .. 2
    BY <1>1
  <2> QED
    BY <1>1, <1>5, <2>1, <2>2 DEF TypeOK
<1>7. ConnInv /\ ToolInv /\ WireInv /\ PassIsEarned /\ FailureIsDeserved
  BY <1>1, <1>5 DEF ConnInv, ToolInv, WireInv, PassIsEarned, FailureIsDeserved
<1>8. HeardInv
  BY <1>1, <1>6, Here DEF HeardInv, TalkAt, ReplyAt, Quiet
<1> QED
  BY <1>6, <1>7, <1>8 DEF ProbeInv

LEMMA InvStep == ASSUME ProbeInv, [Next]_vars PROVE ProbeInv'
<1>1. CASE Own
  BY <1>1, ConnectKeeps, SetDeadlineKeeps, WriteKeeps, WriteFailsKeeps, TakeKeeps, ReadFailsKeeps,
     StartKeeps, WaitKeeps DEF Own
<1>2. CASE Time
  BY <1>2, ExpireKeeps, KillKeeps DEF Time
<1>3. CASE Peer
  BY <1>3, RefuseKeeps, HangupKeeps, SpeakKeeps, SpeakOnKeeps, SpeakEarlyKeeps, IdleKeeps,
     CloseFrameKeeps, ForkKeeps, ExitKeeps, OrphanEndsKeeps DEF Peer
<1>4. CASE UNCHANGED vars
  <2>1. UNCHANGED <<kind, pc, left, conn, armed, sent, verdict, said, wire, due, content, idle,
                    child, bad, trouble>>
    BY <1>4 DEF vars
  <2>2. TypeOK' /\ ConnInv' /\ ToolInv'
    BY <2>1 DEF ProbeInv, TypeOK, ConnInv, ToolInv
  <2>3. TalkAt(pc)' <=> TalkAt(pc)
    BY <2>1 DEF TalkAt, Quiet
  <2>4. ReplyAt(pc)' <=> ReplyAt(pc)
    BY <2>1 DEF ReplyAt, Quiet
  <2>5. HeardInv' /\ WireInv'
    BY <2>1, <2>3, <2>4 DEF ProbeInv, HeardInv, WireInv, step
  <2>6. PassIsEarned' /\ FailureIsDeserved'
    BY <2>1 DEF ProbeInv, PassIsEarned, FailureIsDeserved
  <2> QED
    BY <2>2, <2>5, <2>6 DEF ProbeInv
<1> QED
  BY <1>1, <1>2, <1>3, <1>4 DEF Next

(* Every conversation of an assertion keeps to the invariant: what it has  *)
(* read was good, what is on the wire is the reply its script reads next, and *)
(* whatever went wrong is recorded.                                        *)
THEOREM ProbesSound == Spec => []ProbeInv
<1>1. Init => ProbeInv
  BY InvInit
<1>2. ProbeInv /\ [Next]_vars => ProbeInv'
  BY InvStep
<1> QED
  BY <1>1, <1>2, PTL DEF Spec

(* Every variable keeps its type, for any assertions and any bounds.       *)
THEOREM ProbesTyped == Spec => []TypeOK
<1>1. ProbeInv => TypeOK
  BY DEF ProbeInv
<1> QED
  BY <1>1, ProbesSound, PTL

(* An assertion passes only on replies that were sent and were the expected *)
(* ones, and never on a tool that was killed (the Check functions of       *)
(* internal/runner).                                                       *)
THEOREM PassEarned == Spec => []PassIsEarned
<1>1. ProbeInv => PassIsEarned
  BY DEF ProbeInv
<1> QED
  BY <1>1, ProbesSound, PTL

(* An assertion fails only a peer that refused, closed, was late or wrong, *)
(* or one whose answer came in parts to a Check that reads once.           *)
THEOREM FailureDeserved == Spec => []FailureIsDeserved
<1>1. ProbeInv => FailureIsDeserved
  BY DEF ProbeInv
<1> QED
  BY <1>1, ProbesSound, PTL

(* An assertion that has returned has closed its connection, on whichever of *)
(* its paths it returned.                                                  *)
THEOREM AllClosed == Spec => []NothingLeftOpen
<1>1. ProbeInv => NothingLeftOpen
  BY DEF ProbeInv, ConnInv, NothingLeftOpen
<1> QED
  BY <1>1, ProbesSound, PTL

-----------------------------------------------------------------------------
(* Deadlines.                                                              *)

(* Past a step that sets the deadline there is one, and a tool that is     *)
(* given a context has it while it runs.                                   *)
ArmedInv ==
  /\ verdict = "pending" /\ kind \notin Tools /\ ArmedBefore(kind, pc) => armed
  /\ child \in {"running", "forked"} /\ step.bounded => armed

(* A script is armed from the step that sets its deadline on.              *)
LEMMA ArmsOnce ==
  ASSUME NEW k, NEW i \in 1 .. 7
  PROVE  /\ ~ArmedBefore(k, 1)
         /\ ArmedBefore(k, i + 1) => ArmedBefore(k, i) \/ Script[k][i].op = "arm"
BY DEF ArmedBefore

(* A try begins without a deadline and loses it only to the next try.      *)
LEMMA GiveUpArmed ==
  ASSUME ProbeInv, verdict = "pending", child \notin {"running", "forked"}, GiveUp, UNCHANGED <<kind, child>>
  PROVE  ArmedInv'
<1>1. pc' = 1 \/ verdict' = "fail"
  BY DEF GiveUp
<1>2. ~ArmedBefore(kind, 1)
  BY ArmsOnce
<1> QED
  BY <1>1, <1>2 DEF ArmedInv

LEMMA AdvanceArmed ==
  ASSUME ProbeInv, ArmedInv, verdict = "pending", child \notin {"running", "forked"}, UNCHANGED <<kind, child>>,
         verdict' = "pass" \/ (verdict' = "pending" /\ pc' \in {pc, pc + 1}),
         armed' = TRUE \/ (armed' = armed /\ step.op # "arm")
  PROVE  ArmedInv'
<1>1. pc \in 1 .. 7
  BY Here DEF ProbeInv
<1>2. ArmedBefore(kind, pc + 1) => ArmedBefore(kind, pc) \/ step.op = "arm"
  BY <1>1, ArmsOnce DEF step
<1> QED
  BY <1>2 DEF ArmedInv

(* What the peer does changes neither.                                     *)
LEMMA StillArmed ==
  ASSUME ArmedInv, UNCHANGED probe, child' = child \/ child' = "forked" \/ child' \notin {"running", "forked"},
         child' = "forked" => child \in {"running", "forked"}
  PROVE  ArmedInv'
<1>1. UNCHANGED <<kind, pc, armed, verdict>>
  BY DEF probe
<1> QED
  BY <1>1 DEF ArmedInv, step

(* Each step of the probe, of time and of the peer.                        *)
LEMMA OwnArmed == ASSUME ProbeInv, ArmedInv, Own PROVE ArmedInv'
<1>1. CASE Connect \/ SetDeadline \/ Write \/ WriteFails \/ Take \/ ReadFails
  <2>1. verdict = "pending" /\ step.op # "exec" /\ UNCHANGED <<kind, child>>
    BY <1>1 DEF Connect, SetDeadline, Write, WriteFails, Take, ReadFails, At
  <2>2. child \notin {"running", "forked"}
    BY <2>1, Here DEF ProbeInv, ToolInv
  <2>3. \/ GiveUp
        \/ /\ armed' = TRUE \/ (armed' = armed /\ step.op # "arm")
           /\ verdict' = "pass" \/ (verdict' = "pending" /\ pc' \in {pc, pc + 1})
    <3>1. CASE Connect \/ Write
      BY <2>1, <3>1 DEF Connect, Write, At, Advance
    <3>2. CASE SetDeadline
      BY <2>1, <3>2 DEF SetDeadline, Advance
    <3>3. CASE WriteFails
      BY <3>3 DEF WriteFails
    <3>4. CASE Take \/ ReadFails
      BY <2>1, <3>4 DEF Take, ReadFails, At, Advance
    <3> QED
      BY <1>1, <3>1, <3>2, <3>3, <3>4
  <2> QED
    BY <2>1, <2>2, <2>3, GiveUpArmed, AdvanceArmed
<1>2. CASE Start
  <2>1. step.op = "exec" /\ armed' = step.bounded /\ UNCHANGED <<kind, pc>>
    BY <1>2 DEF Start, At
  <2>2. kind \in Tools
    BY <2>1, Here DEF ProbeInv
  <2> QED
    BY <2>1, <2>2 DEF ArmedInv, step
<1>3. CASE Wait
  <2>1. verdict = "pending" /\ step.op = "exec" /\ child \notin {"running", "forked"} /\ UNCHANGED <<kind, child>>
    BY <1>3 DEF Wait, At
  <2>2. \/ GiveUp
        \/ armed' = armed /\ (verdict' = "pass" \/ (verdict' = "pending" /\ pc' \in {pc, pc + 1}))
    BY <1>3, <2>1 DEF Wait, Advance
  <2> QED
    BY <2>1, <2>2, GiveUpArmed, AdvanceArmed
<1> QED
  BY <1>1, <1>2, <1>3 DEF Own

LEMMA ExpireArmed == ASSUME ProbeInv, ArmedInv, Expire PROVE ArmedInv'
<1>1. verdict = "pending" /\ step.op = "read" /\ UNCHANGED <<kind, child>>
  BY DEF Expire, At
<1>2. child \notin {"running", "forked"}
  BY <1>1, Reading DEF ProbeInv, ToolInv
<1>3. \/ GiveUp
      \/ verdict' = "fail"
      \/ armed' = armed /\ (verdict' = "pass" \/ (verdict' = "pending" /\ pc' \in {pc, pc + 1}))
  BY <1>1 DEF Expire, Advance
<1>4. CASE verdict' = "fail"
  BY <1>1, <1>2, <1>4 DEF ArmedInv
<1> QED
  BY <1>1, <1>2, <1>3, <1>4, GiveUpArmed, AdvanceArmed

LEMMA PeerArmed == ASSUME ProbeInv, ArmedInv, Peer PROVE ArmedInv'
<1>1. CASE Refuse
  <2>1. verdict = "pending" /\ step.op = "dial" /\ UNCHANGED <<kind, child>> /\ (GiveUp \/ verdict' = "fail")
    BY <1>1 DEF Refuse, At
  <2>2. child \notin {"running", "forked"}
    BY <2>1, Here DEF ProbeInv, ToolInv
  <2>3. CASE verdict' = "fail"
    BY <2>1, <2>2, <2>3 DEF ArmedInv
  <2> QED
    BY <2>1, <2>2, <2>3, GiveUpArmed
<1>2. CASE Hangup \/ Speak \/ SpeakOn \/ SpeakEarly \/ Idle \/ CloseFrame
  <2>1. UNCHANGED <<probe, child>>
    BY <1>2 DEF Hangup, Speak, SpeakOn, SpeakEarly, Idle, CloseFrame
  <2> QED
    BY <2>1, StillArmed
<1>3. CASE Fork \/ Exit \/ OrphanEnds
  <2>1. /\ UNCHANGED probe
        /\ (child \in {"running", "forked"} /\ child' = "forked") \/ child' \in {"orphan", "gone"}
    BY <1>3 DEF Fork, Exit, OrphanEnds, Gone
  <2> QED
    BY <2>1, StillArmed
<1> QED
  BY <1>1, <1>2, <1>3 DEF Peer

LEMMA ArmedStep == ASSUME ProbeInv, ArmedInv, [Next]_vars PROVE ArmedInv'
<1>1. CASE Kill
  <2>1. UNCHANGED probe /\ child' \in {"orphan", "gone"}
    BY <1>1 DEF Kill, Gone
  <2> QED
    BY <2>1, StillArmed
<1>2. CASE UNCHANGED vars
  <2>1. UNCHANGED <<probe, child>>
    BY <1>2 DEF vars, probe
  <2> QED
    BY <2>1, StillArmed
<1> QED
  BY <1>1, <1>2, OwnArmed, ExpireArmed, PeerArmed DEF Next, Time

(* Nothing waits without a limit of its own: a probe that waits for a peer *)
(* is under a deadline, and a tool that is given a context has it.         *)
WaitsAreBounded ==
  /\ At("read") => armed
  /\ child \in {"running", "forked"} /\ step.bounded => armed

(* Every read of every assertion is under a deadline, on each of its tries *)
(* (SetDeadline after each dial of the Check functions), and so is a tool  *)
(* that is run with a context: of the two reasons for which a probe may be *)
(* stuck, neither is a peer that does not answer.                          *)
THEOREM AlwaysArmed == Spec => []WaitsAreBounded
<1>1. Init => ArmedInv
  <2> SUFFICES ASSUME Init PROVE ArmedInv
    OBVIOUS
  <2>1. pc = 1 /\ child = "none"
    BY DEF Init
  <2> QED
    BY <2>1, ArmsOnce DEF ArmedInv
<1>2. ProbeInv /\ ArmedInv /\ [Next]_vars => ArmedInv'
  BY ArmedStep
<1>3. ProbeInv /\ ArmedInv => WaitsAreBounded
  <2> SUFFICES ASSUME ProbeInv, ArmedInv, At("read") PROVE armed
    BY DEF ArmedInv, WaitsAreBounded
  <2>1. verdict = "pending" /\ step.op = "read" /\ TypeOK
    BY DEF At, ProbeInv
  <2>2. kind \notin Tools /\ Fits(kind) /\ pc \in DOMAIN Script[kind]
    BY <2>1, Here
  <2>3. ArmedBefore(kind, pc)
    BY <2>1, <2>2 DEF Fits, StepsFit, step
  <2> QED
    BY <2>1, <2>2, <2>3 DEF ArmedInv
<1> QED
  BY <1>1, <1>2, <1>3, ProbesSound, PTL DEF Spec

=============================================================================
