--------------------------- MODULE FtpClientProofs ---------------------------
(***************************************************************************)
(* Client and server stay in step: what each place of a call implies of the *)
(* commands the server has still to answer and of the replies on their way, *)
(* for any number of commands, transfers, silences and lost connections.    *)
(***************************************************************************)
EXTENDS FtpClient, SequenceTheorems, TLAPS

Places == {"idle", "send", "reply", "accept", "data", "final", "abort", "abort2",
           "quit", "bye", "tcp"}

\* The call is a record with the fields of NewCall; to connect is to log in.
CallShape(c) ==
    /\ c = [kind |-> c.kind, todo |-> c.todo, at |-> c.at, id |-> c.id, st |-> c.st,
            end |-> c.end, active |-> c.active]
    /\ c.at \in Places
    /\ c.at \in {"quit", "bye"} => c.todo \in {Login, << >>}
    /\ c.at = "tcp" => c.todo = Login

-----------------------------------------------------------------------------
(* What is on its way, in each place of a call.  The server's last word may   *)
(* be behind what it has said.                                                *)

Bye == Reply(0, "bye")
SaidNothing == wire = << >> \/ (~ up /\ wire = <<Bye>>)
SaidOne(r) == wire = <<r>> \/ (~ up /\ wire = <<r, Bye>>)
SaidTwo(r, q) == wire = <<r, q>> \/ (~ up /\ wire = <<r, q, Bye>>)

NothingOwed == asked = << >> /\ xfer = 0
Quiet == NothingOwed /\ SaidNothing

Disconnected == NothingOwed /\ wire = << >> /\ ~ control

Mine(code) == Reply(call.id, code)
Final(code) == code \notin {"prelim", "wait", "bye"}

\* A command is sent: the server has still to answer, has gone, or has answered.
Unanswered ==
    /\ asked = <<[id |-> call.id, verb |-> Verb]>> /\ xfer = 0
    /\ wire = << >> \/ (Verb = "Hello" /\ wire = <<Mine("wait")>>)
Gone ==
    /\ NothingOwed /\ ~ up
    /\ SaidNothing \/ (Verb = "Hello" /\ SaidOne(Mine("wait")))
Answered ==
    /\ NothingOwed
    /\ \E code : Final(code) /\ (\/ SaidOne(Mine(code))
                                 \/ Verb = "Hello" /\ SaidTwo(Mine("wait"), Mine(code)))
Begun ==
    /\ Verb = "Transfer" /\ asked = << >>
    /\ \/ xfer = call.id /\ up /\ wire = <<Mine("prelim")>>
       \/ xfer = 0 /\ ~ up /\ SaidOne(Mine("prelim"))
       \/ xfer = 0 /\ \E code \in {"ok", "no"} : SaidTwo(Mine("prelim"), Mine(code))
Awaiting == Unanswered \/ Gone \/ Answered \/ Begun

\* A transfer is on, and its last reply has come or not.
Transferring ==
    /\ asked = << >>
    /\ \/ xfer = call.id /\ up /\ wire = << >>
       \/ xfer = 0 /\ ~ up /\ SaidNothing
       \/ xfer = 0 /\ \E code \in {"ok", "no"} : SaidOne(Mine(code))

\* ABOR is sent: only the last answer owed may be 225.
AborAsked == \E id : asked = <<[id |-> id, verb |-> "Abor"]>>
Aborting ==
    \/ AborAsked /\ wire = << >>
    \/ AborAsked /\ xfer = 0 /\ \E r : r.code # "none" /\ wire = <<r>>
    \/ NothingOwed /\ ~ up /\ SaidNothing
    \/ NothingOwed /\ \E r : SaidOne(r)
    \/ NothingOwed /\ \E r, q : r.code # "none" /\ SaidTwo(r, q)
Aborted ==
    \/ AborAsked /\ xfer = 0 /\ wire = << >>
    \/ Quiet
    \/ NothingOwed /\ \E r : SaidOne(r)

InStep ==
    /\ taken.of = taken.as
    /\ call.at \in {"idle", "send", "quit"} => Quiet
    /\ call.at = "tcp" => Disconnected
    /\ call.at = "reply" => Awaiting
    /\ call.at \in {"accept", "data", "final"} => Transferring
    /\ call.at = "abort" => Aborting
    /\ call.at = "abort2" => Aborted

StepInv == CallShape(call) /\ (gaveUp \/ InStep)

-----------------------------------------------------------------------------
(* Short sequences.                                                           *)

LEMMA SameThree ==
    ASSUME NEW S, NEW s \in Seq(S), NEW t \in Seq(S), Len(s) = Len(t), Len(s) \in 1..3,
           s[1] = t[1], Len(s) > 1 => s[2] = t[2], Len(s) > 2 => s[3] = t[3]
    PROVE  s = t
<1>1. \A i \in 1..Len(s) : s[i] = t[i]
 
  OBVIOUS
<1>. QED  BY <1>1, SeqEqual

LEMMA AppendToOne ==
    ASSUME NEW a, NEW b
    PROVE  Append(<<a>>, b) = <<a, b>>
<1>1. PICK s, t : s = Append(<<a>>, b) /\ t = <<a, b>>
  OBVIOUS
<1>2. s \in Seq({a, b}) /\ t \in Seq({a, b})
  BY <1>1
<1>3. Len(s) = 2 /\ s[1] = a /\ s[2] = b
  BY <1>1
<1>4. Len(t) = 2 /\ t[1] = a /\ t[2] = b
  BY <1>1
<1>5. s = t
  BY <1>2, <1>3, <1>4, SameThree
<1>. QED  BY <1>1, <1>5

LEMMA AppendToTwo ==
    ASSUME NEW a, NEW b, NEW c
    PROVE  Append(<<a, b>>, c) = <<a, b, c>>
<1>1. PICK s, t : s = Append(<<a, b>>, c) /\ t = <<a, b, c>>
  OBVIOUS
<1>2. s \in Seq({a, b, c}) /\ t \in Seq({a, b, c})
  BY <1>1
<1>3. Len(s) = 3 /\ s[1] = a /\ s[2] = b /\ s[3] = c
  BY <1>1
<1>4. Len(t) = 3 /\ t[1] = a /\ t[2] = b /\ t[3] = c
  BY <1>1
<1>5. s = t
  BY <1>2, <1>3, <1>4, SameThree
<1>. QED  BY <1>1, <1>5

LEMMA Tuples ==
    \A a, b, c : /\ <<a>> # << >> /\ <<a, b>> # << >> /\ <<a, b, c>> # << >>
                 /\ Head(<<a>>) = a /\ Head(<<a, b>>) = a /\ Head(<<a, b, c>>) = a
                 /\ Tail(<<a>>) = << >> /\ Tail(<<a, b>>) = <<b>> /\ Tail(<<a, b, c>>) = <<b, c>>
                 /\ Append(<< >>, a) = <<a>>
                 /\ Append(<<a>>, b) = <<a, b>>
                 /\ Append(<<a, b>>, c) = <<a, b, c>>
                 /\ << >> \o <<a, b>> = <<a, b>>
<1>. TAKE a, b, c
<1>1. <<a>> # << >> /\ <<a, b>> # << >> /\ <<a, b, c>> # << >>
  OBVIOUS
<1>2. Head(<<a>>) = a /\ Head(<<a, b>>) = a /\ Head(<<a, b, c>>) = a
  OBVIOUS
<1>3. Tail(<<a>>) = << >> /\ Tail(<<a, b>>) = <<b>>
  OBVIOUS
<1>4. Tail(<<a, b, c>>) = <<b, c>>
  OBVIOUS
<1>5. Append(<< >>, a) = <<a>> /\ << >> \o <<a, b>> = <<a, b>>
  OBVIOUS
<1>. QED  BY <1>1, <1>2, <1>3, <1>4, <1>5, AppendToOne, AppendToTwo

-----------------------------------------------------------------------------
(* What the server does keeps the client in step.                             *)

LEMMA LastWord ==
    ASSUME ServerLeaves
    PROVE  /\ up /\ ~ up' /\ NothingOwed' /\ UNCHANGED clientVars
           /\ wire = << >> => SaidNothing'
           /\ \A r : wire = <<r>> => SaidOne(r)'
           /\ \A r, q : wire = <<r, q>> => SaidTwo(r, q)'
<1>1. wire' = wire \/ wire' = Append(wire, Bye)
  BY DEF ServerLeaves, Bye
<1>2. up /\ ~ up' /\ NothingOwed' /\ UNCHANGED clientVars
  BY DEF ServerLeaves, NothingOwed
<1>3. wire = << >> => SaidNothing'
  BY <1>1, <1>2, Tuples DEF SaidNothing, Bye
<1>4. ASSUME NEW r, wire = <<r>> PROVE SaidOne(r)'
  <2>1. wire' = <<r>> \/ wire' = <<r, Bye>>
    BY <1>1, <1>4, AppendToOne
  <2>. QED  BY <1>2, <2>1 DEF SaidOne, Bye
<1>5. ASSUME NEW r, NEW q, wire = <<r, q>> PROVE SaidTwo(r, q)'
  <2>1. wire' = <<r, q>> \/ wire' = <<r, q, Bye>>
    BY <1>1, <1>5, AppendToTwo
  <2>. QED  BY <1>2, <2>1 DEF SaidTwo, Bye
<1>. QED  BY <1>2, <1>3, <1>4, <1>5

LEMMA QuietKept == ASSUME Quiet, Server PROVE Quiet'
<1>1. ~ ServerAnswers /\ ~ ServerWaits /\ ~ ServerEndsTransfer /\ ~ ServerAborts
  BY DEF Quiet, NothingOwed, ServerAnswers, ServerWaits, ServerEndsTransfer, ServerAborts
<1>2. CASE ServerLeaves
  BY <1>2, LastWord DEF Quiet, SaidNothing
<1>. QED  BY <1>1, <1>2 DEF Server

LEMMA DisconnectedKept == Disconnected => ~ Server
BY DEF Disconnected, NothingOwed, Server, ServerAnswers, ServerWaits, ServerEndsTransfer,
       ServerAborts, ServerLeaves

LEMMA TransferringKept == ASSUME Transferring, Server PROVE Transferring'
<1>1. ~ ServerAnswers /\ ~ ServerWaits /\ ~ ServerAborts
  BY DEF Transferring, ServerAnswers, ServerWaits, ServerAborts
<1>2. CASE ServerEndsTransfer
  <2>1. xfer = call.id /\ wire = << >> /\ UNCHANGED <<asked, call>> /\ xfer' = 0
    BY <1>2 DEF Transferring, ServerEndsTransfer, clientVars
  <2>2. \E code \in {"ok", "no"} : wire' = Append(wire, Reply(xfer, code))
    BY <1>2 DEF ServerEndsTransfer
  <2>. QED  BY <2>1, <2>2, Tuples DEF Transferring, SaidOne, Mine
<1>3. CASE ServerLeaves
  <2>1. UNCHANGED call /\ NothingOwed' /\ ~ up' /\ up
    BY <1>3, LastWord DEF clientVars
  <2>2. SaidNothing' \/ \E code \in {"ok", "no"} : SaidOne(Mine(code))'
    <3>1. wire = << >> \/ \E code \in {"ok", "no"} : wire = <<Mine(code)>>
      BY <2>1 DEF Transferring, SaidNothing, SaidOne
    <3>2. ASSUME NEW code \in {"ok", "no"}, wire = <<Mine(code)>> PROVE SaidOne(Mine(code))'
      <4>1. \A r : wire = <<r>> => SaidOne(r)'
        BY <1>3, LastWord
      <4>. QED  BY <2>1, <3>2, <4>1 DEF SaidOne, Mine
    <3>. QED  BY <1>3, <3>1, <3>2, LastWord
  <2>. QED  BY <2>1, <2>2 DEF Transferring, NothingOwed
<1>. QED  BY <1>1, <1>2, <1>3 DEF Server

LEMMA AwaitingKept == ASSUME Awaiting, Server PROVE Awaiting'
<1>1. UNCHANGED call
  BY DEF Server, ServerAnswers, ServerWaits, ServerEndsTransfer, ServerAborts, ServerLeaves,
         clientVars
<1>2. asked # << >> => /\ xfer = 0 /\ asked = <<[id |-> call.id, verb |-> Verb]>>
                       /\ Oldest.id = call.id /\ Oldest.verb = Verb /\ Tail(asked) = << >>
                       /\ wire = << >> \/ (Verb = "Hello" /\ wire = <<Mine("wait")>>)
  <2>. HAVE asked # << >>
  <2>1. Unanswered
    BY DEF Awaiting, Gone, Answered, Begun, NothingOwed
  <2>2. PICK command : command = [id |-> call.id, verb |-> Verb] /\ asked = <<command>>
    BY <2>1 DEF Unanswered
  <2>3. Oldest = command /\ Tail(asked) = << >>
    BY <2>2, Tuples DEF Oldest
  <2>. QED  BY <2>1, <2>2, <2>3 DEF Unanswered
<1>3. CASE ServerAnswers
  <2>1. PICK code \in Codes(Verb) :
            /\ wire' = Append(wire, Mine(code))
            /\ xfer' = IF code = "prelim" THEN call.id ELSE 0
    BY <1>2, <1>3 DEF ServerAnswers, Mine
  <2>2. asked' = << >> /\ asked # << >>
    BY <1>2, <1>3 DEF ServerAnswers
  <2>3. CASE code = "prelim"
    <3>1. Verb = "Transfer"
      BY <2>3 DEF Codes
    <3>2. wire' = <<Mine("prelim")>>
      BY <1>2, <2>1, <2>2, <2>3, <3>1, Tuples
    <3>3. Begun'
      BY <1>1, <1>3, <2>1, <2>2, <2>3, <3>1, <3>2 DEF ServerAnswers, Begun, Mine, Verb
    <3>. QED  BY <3>3 DEF Awaiting
  <2>4. CASE code # "prelim"
    <3>1. Final(code)
      BY <2>4 DEF Codes, Final
    <3>2. wire' = <<Mine(code)>> \/ (Verb = "Hello" /\ wire' = <<Mine("wait"), Mine(code)>>)
      <4>1. CASE wire = << >>
        BY <2>1, <4>1, Tuples
      <4>2. CASE Verb = "Hello" /\ wire = <<Mine("wait")>>
        BY <2>1, <4>2, AppendToOne
      <4>. QED  BY <1>2, <2>2, <4>1, <4>2
    <3>3. Answered'
      BY <1>1, <2>1, <2>2, <2>4, <3>1, <3>2
      DEF Answered, NothingOwed, SaidOne, SaidTwo, Mine, Verb
    <3>. QED  BY <3>3 DEF Awaiting
  <2>. QED  BY <2>3, <2>4
<1>4. CASE ServerWaits
  <2>1. Unanswered'
    BY <1>1, <1>2, <1>4 DEF ServerWaits, Unanswered, Mine, Verb
  <2>. QED  BY <2>1 DEF Awaiting
<1>5. CASE ServerEndsTransfer
  <2>1. Verb = "Transfer" /\ asked = << >> /\ xfer = call.id /\ wire = <<Mine("prelim")>>
    BY <1>5 DEF ServerEndsTransfer, Awaiting, Unanswered, Gone, Answered, Begun, NothingOwed
  <2>2. PICK code \in {"ok", "no"} : wire' = <<Mine("prelim"), Mine(code)>>
    <3>1. \E code \in {"ok", "no"} : wire' = Append(wire, Mine(code))
      BY <1>5, <2>1 DEF ServerEndsTransfer, Mine
    <3>. QED  BY <2>1, <3>1, AppendToOne
  <2>3. Begun'
    BY <1>1, <1>5, <2>1, <2>2 DEF ServerEndsTransfer, Begun, SaidTwo, Mine, Verb
  <2>. QED  BY <2>3 DEF Awaiting
<1>6. CASE ServerAborts
  <2>1. asked # << >> /\ Verb = "Abor" /\ wire = << >> /\ xfer = 0
    BY <1>2, <1>6 DEF ServerAborts
  <2>2. PICK code \in {"ok", "none"} : wire' = Append(wire, Mine(code))
    BY <1>2, <1>6, <2>1 DEF ServerAborts, Mine
  <2>3. wire' = <<Mine(code)>> /\ asked' = << >> /\ xfer' = 0
    BY <1>2, <1>6, <2>1, <2>2, Tuples DEF ServerAborts
  <2>4. Answered'
    BY <1>1, <2>3 DEF Answered, NothingOwed, SaidOne, Mine, Final
  <2>. QED  BY <2>4 DEF Awaiting
<1>7. CASE ServerLeaves
  <2>1. up /\ ~ up' /\ NothingOwed'
    BY <1>7, LastWord
  <2>2. CASE wire = << >>
    BY <1>1, <1>7, <2>1, <2>2, LastWord DEF Awaiting, Gone
  <2>3. CASE Verb = "Hello" /\ wire = <<Mine("wait")>>
    <3>1. SaidOne(Mine("wait"))'
      <4>1. \A r : wire = <<r>> => SaidOne(r)'
        BY <1>7, LastWord
      <4>. QED  BY <1>1, <2>3, <4>1 DEF SaidOne, Mine
    <3>. QED  BY <1>1, <2>1, <2>3, <3>1 DEF Awaiting, Gone, Verb
  <2>4. ASSUME NEW code, Final(code), wire = <<Mine(code)>> PROVE Awaiting'
    <3>1. SaidOne(Mine(code))'
      <4>1. \A r : wire = <<r>> => SaidOne(r)'
        BY <1>7, LastWord
      <4>. QED  BY <1>1, <2>4, <4>1 DEF SaidOne, Mine
    <3>. QED  BY <1>1, <2>1, <2>4, <3>1 DEF Awaiting, Answered, Final
  <2>5. ASSUME NEW code, Final(code), Verb = "Hello", wire = <<Mine("wait"), Mine(code)>>
        PROVE  Awaiting'
    <3>1. SaidTwo(Mine("wait"), Mine(code))'
      <4>1. \A r, q : wire = <<r, q>> => SaidTwo(r, q)'
        BY <1>7, LastWord
      <4>. QED  BY <1>1, <2>5, <4>1 DEF SaidTwo, Mine
    <3>. QED  BY <1>1, <2>1, <2>5, <3>1 DEF Awaiting, Answered, Final, Verb
  <2>6. CASE Verb = "Transfer" /\ wire = <<Mine("prelim")>>
    <3>1. SaidOne(Mine("prelim"))'
      <4>1. \A r : wire = <<r>> => SaidOne(r)'
        BY <1>7, LastWord
      <4>. QED  BY <1>1, <2>6, <4>1 DEF SaidOne, Mine
    <3>. QED  BY <1>1, <2>1, <2>6, <3>1 DEF Awaiting, Begun, NothingOwed, Verb
  <2>7. ASSUME NEW code \in {"ok", "no"}, Verb = "Transfer", wire = <<Mine("prelim"), Mine(code)>>
        PROVE  Awaiting'
    <3>1. SaidTwo(Mine("prelim"), Mine(code))'
      <4>1. \A r, q : wire = <<r, q>> => SaidTwo(r, q)'
        BY <1>7, LastWord
      <4>. QED  BY <1>1, <2>7, <4>1 DEF SaidTwo, Mine
    <3>. QED  BY <1>1, <2>1, <2>7, <3>1 DEF Awaiting, Begun, NothingOwed, Verb
  <2>8. CASE Unanswered
    BY <2>2, <2>3, <2>8 DEF Unanswered
  <2>9. CASE Gone
    BY <2>1, <2>9 DEF Gone
  <2>10. CASE Answered
    BY <2>1, <2>4, <2>5, <2>10 DEF Answered, SaidOne, SaidTwo
  <2>11. CASE Begun
    BY <2>1, <2>6, <2>7, <2>11 DEF Begun, SaidTwo
  <2>. QED  BY <2>8, <2>9, <2>10, <2>11 DEF Awaiting
<1>. QED  BY <1>3, <1>4, <1>5, <1>6, <1>7 DEF Server

LEMMA AborIsAsked ==
    ASSUME AborAsked
    PROVE  asked # << >> /\ Oldest.verb = "Abor" /\ Tail(asked) = << >>
<1>1. PICK id : asked = <<[id |-> id, verb |-> "Abor"]>>
  BY DEF AborAsked
<1>2. PICK command : command = [id |-> id, verb |-> "Abor"] /\ asked = <<command>>
  BY <1>1
<1>. QED  BY <1>2, Tuples DEF Oldest

LEMMA AbortingKept == ASSUME Aborting, Server PROVE Aborting'
<1>1. asked # << >> => /\ AborAsked /\ Oldest.verb = "Abor" /\ Tail(asked) = << >>
                       /\ wire = << >> \/ (xfer = 0 /\ \E r : r.code # "none" /\ wire = <<r>>)
  BY AborIsAsked DEF Aborting, NothingOwed
<1>2. ~ ServerAnswers /\ ~ ServerWaits
  BY <1>1 DEF ServerAnswers, ServerWaits
<1>3. CASE ServerEndsTransfer
  <2>1. AborAsked /\ wire = << >> /\ UNCHANGED asked /\ xfer' = 0
    BY <1>3 DEF ServerEndsTransfer, Aborting, NothingOwed
  <2>2. PICK r : r.code # "none" /\ wire' = Append(wire, r)
    BY <1>3 DEF ServerEndsTransfer, Reply
  <2>3. wire' = <<r>>
    BY <2>1, <2>2, Tuples
  <2>4. AborAsked'
    BY <2>1 DEF AborAsked
  <2>. QED  BY <2>1, <2>2, <2>3, <2>4 DEF Aborting
<1>4. CASE ServerAborts
  <2>1. NothingOwed' /\ asked # << >>
    BY <1>1, <1>4 DEF ServerAborts, NothingOwed
  <2>2. (\E r : wire' = <<r>>) \/ (\E r, q : r.code # "none" /\ wire' = <<r, q>>)
    <3>1. ASSUME NEW r, wire' = Append(wire, r) PROVE <2>2
      <4>1. wire = << >> => wire' = <<r>>
        BY <3>1, Tuples
      <4>2. \A q : wire = <<q>> => wire' = <<q, r>>
        BY <3>1, AppendToOne
      <4>. QED  BY <1>1, <2>1, <4>1, <4>2
    <3>2. ASSUME NEW r, xfer # 0, wire' = wire \o <<Reply(xfer, "no"), r>> PROVE <2>2
      <4>1. PICK failed : failed = Reply(xfer, "no")
        OBVIOUS
      <4>2. wire = << >> /\ wire' = wire \o <<failed, r>>
        BY <1>1, <2>1, <3>2, <4>1
      <4>3. wire' = <<failed, r>>
        BY <4>2, Tuples
      <4>. QED  BY <4>1, <4>3 DEF Reply
    <3>. QED  BY <1>4, <3>1, <3>2 DEF ServerAborts
  <2>. QED  BY <2>1, <2>2 DEF Aborting, SaidOne, SaidTwo
<1>5. CASE ServerLeaves
  <2>1. up /\ ~ up' /\ NothingOwed'
    BY <1>5, LastWord
  <2>2. \/ wire = << >>
        \/ \E r : wire = <<r>>
        \/ \E r, q : r.code # "none" /\ wire = <<r, q>>
    BY <2>1 DEF Aborting, SaidOne, SaidTwo
  <2>3. \/ SaidNothing'
        \/ \E r : SaidOne(r)'
        \/ \E r, q : r.code # "none" /\ SaidTwo(r, q)'
    BY <1>5, <2>2, LastWord
  <2>. QED  BY <2>1, <2>3 DEF Aborting
<1>. QED  BY <1>2, <1>3, <1>4, <1>5 DEF Server

LEMMA AbortedKept == ASSUME Aborted, Server PROVE Aborted'
<1>1. asked # << >> => /\ AborAsked /\ Oldest.verb = "Abor" /\ Tail(asked) = << >>
                       /\ wire = << >>
  BY AborIsAsked DEF Aborted, Quiet, NothingOwed
<1>2. xfer = 0
  BY DEF Aborted, Quiet, NothingOwed
<1>3. ~ ServerAnswers /\ ~ ServerWaits /\ ~ ServerEndsTransfer
  BY <1>1, <1>2 DEF ServerAnswers, ServerWaits, ServerEndsTransfer
<1>4. CASE ServerAborts
  <2>1. PICK r : wire' = Append(wire, r)
    BY <1>2, <1>4 DEF ServerAborts
  <2>2. wire' = <<r>> /\ NothingOwed'
    BY <1>1, <1>4, <2>1, Tuples DEF ServerAborts, NothingOwed
  <2>. QED  BY <2>2 DEF Aborted, SaidOne
<1>5. CASE ServerLeaves
  <2>1. up /\ ~ up' /\ NothingOwed'
    BY <1>5, LastWord
  <2>2. wire = << >> \/ \E r : wire = <<r>>
    BY <2>1 DEF Aborted, Quiet, SaidNothing, SaidOne
  <2>3. SaidNothing' \/ \E r : SaidOne(r)'
    BY <1>5, <2>2, LastWord
  <2>. QED  BY <2>1, <2>3 DEF Aborted, Quiet
<1>. QED  BY <1>3, <1>4, <1>5 DEF Server

LEMMA ServerKeeps == ASSUME StepInv, Server PROVE StepInv'
<1>1. UNCHANGED <<control, call, taken, gaveUp>>
  BY DEF Server, ServerAnswers, ServerWaits, ServerEndsTransfer, ServerAborts, ServerLeaves,
         clientVars
<1>2. CASE gaveUp
  BY <1>1, <1>2 DEF StepInv
<1>3. CASE InStep
  BY <1>1, <1>3, QuietKept, DisconnectedKept, AwaitingKept, TransferringKept, AbortingKept,
     AbortedKept DEF StepInv, InStep
<1>. QED  BY <1>2, <1>3 DEF StepInv

-----------------------------------------------------------------------------
(* How a call goes on.                                                        *)

Fields(c) == c = [kind |-> c.kind, todo |-> c.todo, at |-> c.at, id |-> c.id, st |-> c.st,
                  end |-> c.end, active |-> c.active]

LEMMA FieldSet ==
    ASSUME NEW c, Fields(c), NEW x
    PROVE  /\ Fields([c EXCEPT !.at = x]) /\ [c EXCEPT !.at = x].at = x
           /\ [c EXCEPT !.at = x].todo = c.todo /\ [c EXCEPT !.at = x].id = c.id
           /\ Fields([c EXCEPT !.todo = x]) /\ [c EXCEPT !.todo = x].todo = x
           /\ [c EXCEPT !.todo = x].at = c.at /\ [c EXCEPT !.todo = x].id = c.id
           /\ Fields([c EXCEPT !.id = x]) /\ [c EXCEPT !.id = x].id = x
           /\ [c EXCEPT !.id = x].at = c.at /\ [c EXCEPT !.id = x].todo = c.todo
           /\ Fields([c EXCEPT !.st = x]) /\ [c EXCEPT !.st = x].at = c.at
           /\ Fields([c EXCEPT !.end = x]) /\ [c EXCEPT !.end = x].at = c.at
           /\ [c EXCEPT !.end = x].todo = c.todo /\ [c EXCEPT !.end = x].id = c.id
           /\ Fields([c EXCEPT !.active = x]) /\ [c EXCEPT !.active = x].at = c.at
BY DEF Fields

LEMMA Returned ==
    ASSUME CallShape(call), NEW st, Return(st)
    PROVE  CallShape(call') /\ call'.at = "idle"
<1>1. PICK v : v = [call EXCEPT !.at = "idle"]
  OBVIOUS
<1>2. PICK w : w = [v EXCEPT !.todo = << >>]
  OBVIOUS
<1>3. call' = [w EXCEPT !.st = st]
  BY <1>1, <1>2, Zenon DEF Return
<1>4. Fields(v) /\ v.at = "idle"
  BY <1>1, FieldSet DEF CallShape, Fields
<1>5. Fields(w) /\ w.at = "idle"
  BY <1>2, <1>4, FieldSet
<1>6. Fields(call') /\ call'.at = "idle"
  BY ZenonT(60), <1>3, <1>5, FieldSet
<1>. QED  BY <1>6 DEF CallShape, Fields, Places

LEMMA Went ==
    ASSUME CallShape(call), NEW at \in Places, Goto(at),
           at \in {"quit", "bye"} => call.todo \in {Login, << >>}, at = "tcp" => call.todo = Login
    PROVE  CallShape(call') /\ call'.at = at /\ call'.id = call.id /\ call'.todo = call.todo
<1>1. /\ Fields(call') /\ call'.at = at /\ call'.id = call.id /\ call'.todo = call.todo
  BY FieldSet DEF CallShape, Fields, Goto
<1>. QED  BY <1>1 DEF CallShape, Fields

\* A closed connection owes nothing.
LEMMA ClosedInStep ==
    ASSUME CloseControl, CallShape(call'), call'.at \in {"idle", "tcp"}
    PROVE  StepInv'
BY DEF CloseControl, NothingTaken, StepInv, InStep, Quiet, NothingOwed, SaidNothing, Disconnected

LEMMA QuietInStep ==
    ASSUME CallShape(call'), call'.at \in {"idle", "send", "quit"},
           gaveUp' \/ (taken'.of = taken'.as /\ Quiet')
    PROVE  StepInv'
BY DEF StepInv, InStep

\* A call that ends while nothing is owed to it, or gives up what is.
LEMMA GivenUpInStep ==
    ASSUME StepInv, CallShape(call'), call'.at = "idle", UNCHANGED <<serverVars, taken>>,
           gaveUp' = (gaveUp \/ Owed)
    PROVE  StepInv'
<1>1. ~ gaveUp' => Quiet' /\ taken'.of = taken'.as
  BY DEF StepInv, InStep, serverVars, Owed, Quiet, NothingOwed, SaidNothing
<1>. QED  BY <1>1, QuietInStep

LEMMA AfterQuitShape ==
    ASSUME CallShape(call), call.at \in {"quit", "bye"}, AfterQuit
    PROVE  CallShape(call') /\ call'.at \in {"idle", "tcp"}
<1>1. call.todo \in {Login, << >>}
  BY DEF CallShape
<1>2. CASE call.todo = << >>
  BY <1>2, Returned DEF AfterQuit
<1>3. CASE call.todo # << >>
  BY <1>1, <1>3, Went DEF AfterQuit, Places
<1>. QED  BY <1>2, <1>3

-----------------------------------------------------------------------------
(* What the client does.                                                      *)

LEMMA NewCallShape ==
    ASSUME NEW kind, NEW todo, NEW at \in {"send", "quit", "idle"},
           at = "quit" => todo \in {Login, << >>}
    PROVE  CallShape(NewCall(kind, todo, at)) /\ NewCall(kind, todo, at).at = at
BY DEF NewCall, CallShape, Places

LEMMA StartsInStep == ASSUME StepInv, StartCall \/ StartConnect PROVE StepInv'
<1>1. CallShape(call') /\ call'.at \in {"send", "quit"}
  BY NewCallShape DEF StartCall, StartConnect
<1>2. At("idle") /\ UNCHANGED <<serverVars, taken, gaveUp>>
  BY DEF StartCall, StartConnect
<1>3. gaveUp' \/ (taken'.of = taken'.as /\ Quiet')
  BY <1>2 DEF StepInv, InStep, At, serverVars, Quiet, NothingOwed, SaidNothing
<1>. QED  BY <1>1, <1>3, QuietInStep

\* The place and the number of a command that was just sent.
LEMMA SentShape ==
    ASSUME CallShape(call), NEW id, call' = [call EXCEPT !.at = "reply", !.id = id]
    PROVE  CallShape(call') /\ call'.at = "reply" /\ call'.id = id /\ call'.todo = call.todo
<1>1. PICK v : v = [call EXCEPT !.at = "reply"]
  OBVIOUS
<1>2. call' = [v EXCEPT !.id = id]
  BY <1>1, Zenon
<1>3. Fields(v) /\ v.at = "reply" /\ v.todo = call.todo
  BY <1>1, FieldSet DEF CallShape, Fields
<1>4. PICK w : w = [v EXCEPT !.id = id]
  OBVIOUS
<1>5. Fields(w) /\ w.at = "reply" /\ w.id = id /\ w.todo = call.todo
  BY <1>3, <1>4 DEF Fields
<1>6. call' = w
  BY <1>2, <1>4
<1>. QED  BY <1>5, <1>6 DEF CallShape, Fields, Places

LEMMA CommandInStep == ASSUME StepInv, Command PROVE StepInv'
<1>1. CallShape(call) /\ At("send")
  BY DEF StepInv, Command
<1>2. CASE /\ Post(Verb) /\ call' = [call EXCEPT !.at = "reply", !.id = sent']
           /\ UNCHANGED <<xfer, wire, up, taken, gaveUp>>
  <2>1. CallShape(call') /\ call'.at = "reply" /\ call'.id = sent' /\ call'.todo = call.todo
    BY <1>1, <1>2, SentShape
  <2>2. ASSUME ~ gaveUp PROVE Awaiting' /\ taken'.of = taken'.as
    <3>1. Quiet /\ taken.of = taken.as
      BY <1>1, <2>2 DEF StepInv, InStep, At
    <3>2. PICK command : command = [id |-> sent', verb |-> Verb]
      OBVIOUS
    <3>3. CASE up
      <4>1. asked' = <<command>> /\ wire = << >>
        BY <1>2, <3>1, <3>2, <3>3, Tuples DEF Post, Quiet, NothingOwed, SaidNothing
      <4>2. Unanswered'
        BY <1>2, <2>1, <3>1, <3>2, <4>1 DEF Unanswered, Quiet, NothingOwed, Verb
      <4>. QED  BY <1>2, <3>1, <4>2 DEF Awaiting
    <3>4. CASE ~ up
      BY <1>2, <3>1, <3>4 DEF Post, Awaiting, Gone, Quiet, NothingOwed, SaidNothing
    <3>. QED  BY <3>3, <3>4
  <2>. QED  BY <1>2, <2>1, <2>2 DEF StepInv, InStep
<1>3. CASE SendFails /\ Return("ConnectionLost")
  BY <1>1, <1>3, Returned, ClosedInStep DEF SendFails
<1>4. CASE Return("Failed") /\ UNCHANGED <<serverVars, taken, gaveUp>>
  <2>1. gaveUp' \/ (taken'.of = taken'.as /\ Quiet')
    BY <1>1, <1>4 DEF StepInv, InStep, At, serverVars, Quiet, NothingOwed, SaidNothing
  <2>. QED  BY <1>1, <1>4, <2>1, Returned, QuietInStep
<1>. QED  BY <1>2, <1>3, <1>4 DEF Command

LEMMA NoReplyInStep == ASSUME StepInv, NoReply PROVE StepInv'
<1>1. CallShape(call)
  BY DEF StepInv
<1>2. CASE Return("Cancelled") /\ gaveUp' = (gaveUp \/ Owed) /\ UNCHANGED <<serverVars, taken>>
  BY <1>1, <1>2, Returned, GivenUpInStep
<1>3. CASE CloseControl /\ Return("ConnectionLost")
  BY <1>1, <1>3, Returned, ClosedInStep
<1>. QED  BY <1>2, <1>3 DEF NoReply

\* What is left of what was said when its first reply is taken.
LEMMA TailSaid ==
    ASSUME wire' = Tail(wire)
    PROVE  /\ SaidNothing => wire = << >> \/ wire' = << >>
           /\ \A r : SaidOne(r) => wire' = << >> \/ (~ up /\ wire' = <<Bye>>)
           /\ \A r, q : SaidTwo(r, q) => wire' = <<q>> \/ (~ up /\ wire' = <<q, Bye>>)
<1>1. PICK bye : bye = Bye
  OBVIOUS
<1>2. SaidNothing => wire = << >> \/ wire' = << >>
  BY <1>1, Tuples DEF SaidNothing
<1>3. ASSUME NEW r, SaidOne(r) PROVE wire' = << >> \/ (~ up /\ wire' = <<Bye>>)
  <2>1. CASE wire = <<r>>
    BY <2>1, Tuples
  <2>2. CASE ~ up /\ wire = <<r, bye>>
    BY <1>1, <2>2, Tuples
  <2>. QED  BY <1>1, <1>3, <2>1, <2>2 DEF SaidOne
<1>4. ASSUME NEW r, NEW q, SaidTwo(r, q)
      PROVE  wire' = <<q>> \/ (~ up /\ wire' = <<q, Bye>>)
  <2>1. CASE wire = <<r, q>>
    BY <2>1, Tuples
  <2>2. CASE ~ up /\ wire = <<r, q, bye>>
    BY <1>1, <2>2, Tuples
  <2>. QED  BY <1>1, <1>4, <2>1, <2>2 DEF SaidTwo
<1>. QED  BY <1>2, <1>3, <1>4

\* What is left when the oldest reply to a command has been taken.
LEMMA ReplyTaken ==
    ASSUME Awaiting, wire # << >>, Head(wire).code # "bye",
           wire' = Tail(wire), UNCHANGED <<asked, xfer, up>>
    PROVE  /\ Head(wire).id = call.id
           /\ Head(wire).code = "wait" =>
                Verb = "Hello" /\ (UNCHANGED call => Awaiting')
           /\ Head(wire).code = "prelim" =>
                Verb = "Transfer" /\ (call'.id = call.id => Transferring')
           /\ Head(wire).code \notin {"wait", "prelim"} => Quiet'
<1>. DEFINE Goal == /\ Head(wire).id = call.id
                    /\ Head(wire).code = "wait" =>
                         Verb = "Hello" /\ (UNCHANGED call => Awaiting')
                    /\ Head(wire).code = "prelim" =>
                         Verb = "Transfer" /\ (call'.id = call.id => Transferring')
                    /\ Head(wire).code \notin {"wait", "prelim"} => Quiet'
<1>1. \A code : Mine(code).id = call.id /\ Mine(code).code = code
  BY DEF Mine, Reply
<1>2. wire # <<Bye>>
  <2>1. PICK last : last = Bye
    OBVIOUS
  <2>. QED  BY <2>1, Tuples DEF Bye, Reply
<1>3. ASSUME Verb = "Hello", wire = <<Mine("wait")>>, Unanswered \/ Gone PROVE Goal
  <2>1. Head(wire) = Mine("wait") /\ wire' = << >>
    BY <1>3, Tuples
  <2>2. UNCHANGED call => Awaiting'
    BY <1>3, <2>1 DEF Unanswered, Gone, Awaiting, NothingOwed, SaidNothing, Verb
  <2>. QED  BY <1>1, <1>3, <2>1, <2>2
<1>4. ASSUME Verb = "Hello", Gone, wire = <<Mine("wait"), Bye>> PROVE Goal
  <2>1. Head(wire) = Mine("wait") /\ wire' = <<Bye>>
    BY <1>4, Tuples
  <2>2. UNCHANGED call => Awaiting'
    BY <1>4, <2>1 DEF Gone, Awaiting, NothingOwed, SaidNothing, Bye
  <2>. QED  BY <1>1, <1>4, <2>1, <2>2
<1>5. ASSUME NEW code, Final(code), NothingOwed, SaidOne(Mine(code)) PROVE Goal
  <2>1. Head(wire) = Mine(code)
    BY <1>5, Tuples DEF SaidOne
  <2>2. wire' = << >> \/ (~ up /\ wire' = <<Bye>>)
    BY <1>5, TailSaid
  <2>3. Quiet'
    BY <1>5, <2>2 DEF Quiet, NothingOwed, SaidNothing, Bye
  <2>. QED  BY <1>1, <1>5, <2>1, <2>3 DEF Final
<1>6. ASSUME NEW code, Final(code), NothingOwed, Verb = "Hello",
             SaidTwo(Mine("wait"), Mine(code)) PROVE Goal
  <2>1. Head(wire) = Mine("wait")
    BY <1>6, Tuples DEF SaidTwo
  <2>2. wire' = <<Mine(code)>> \/ (~ up /\ wire' = <<Mine(code), Bye>>)
    BY <1>6, TailSaid
  <2>3. UNCHANGED call => Awaiting'
    BY <1>6, <2>2 DEF Answered, Awaiting, NothingOwed, SaidOne, Mine, Bye
  <2>. QED  BY <1>1, <1>6, <2>1, <2>3
<1>7. ASSUME Begun PROVE Goal
  <2>1. \/ xfer = call.id /\ up /\ wire = <<Mine("prelim")>>
        \/ xfer = 0 /\ ~ up /\ SaidOne(Mine("prelim"))
        \/ xfer = 0 /\ \E code \in {"ok", "no"} : SaidTwo(Mine("prelim"), Mine(code))
    BY <1>7 DEF Begun
  <2>2. Head(wire) = Mine("prelim")
    BY <2>1, Tuples DEF SaidOne, SaidTwo
  <2>3. \/ xfer = call.id /\ up /\ wire' = << >>
        \/ xfer = 0 /\ ~ up /\ (wire' = << >> \/ wire' = <<Bye>>)
        \/ /\ xfer = 0
           /\ \E code \in {"ok", "no"} : wire' = <<Mine(code)>> \/ (~ up /\ wire' = <<Mine(code), Bye>>)
    <3>1. wire = <<Mine("prelim")>> => wire' = << >>
      BY Tuples
    <3>. QED  BY <2>1, <3>1, TailSaid
  <2>4. call'.id = call.id => Transferring'
    BY <1>7, <2>3 DEF Begun, Transferring, SaidNothing, SaidOne, Mine, Bye
  <2>. QED  BY <1>1, <1>7, <2>2, <2>4 DEF Begun
<1>8. CASE Unanswered
  BY <1>3, <1>8 DEF Unanswered
<1>9. CASE Gone
  BY <1>2, <1>3, <1>4, <1>9 DEF Gone, SaidNothing, SaidOne
<1>10. CASE Answered
  BY <1>5, <1>6, <1>10 DEF Answered
<1>. QED  BY <1>7, <1>8, <1>9, <1>10 DEF Awaiting

LEMMA AfterGoodShape ==
    ASSUME CallShape(call), NEW code, AfterGood(code)
    PROVE  /\ CallShape(call')
           /\ \/ Verb = "Transfer" /\ call'.at \in {"accept", "data"} /\ call'.id = call.id
              \/ Verb # "Transfer" /\ call'.at \in {"send", "idle"}
<1>1. CASE Verb = "Transfer" /\ Goto(IF call.active THEN "accept" ELSE "data")
  BY <1>1, Went DEF Places
<1>2. ASSUME NEW rest, NEW active, Verb # "Transfer",
             call' = [call EXCEPT !.at = "send", !.todo = rest, !.active = active]
      PROVE  CallShape(call') /\ call'.at = "send"
  <2>1. PICK v : v = [call EXCEPT !.at = "send"]
    OBVIOUS
  <2>2. PICK w : w = [v EXCEPT !.todo = rest]
    OBVIOUS
  <2>3. call' = [w EXCEPT !.active = active]
    BY <1>2, <2>1, <2>2, Zenon
  <2>4. Fields(v) /\ v.at = "send"
    BY <2>1, FieldSet DEF CallShape, Fields
  <2>5. Fields(w) /\ w.at = "send"
    BY <2>2, <2>4, FieldSet
  <2>6. Fields(call') /\ call'.at = "send"
    BY ZenonT(60), <2>3, <2>5, FieldSet
  <2>. QED  BY <2>6 DEF CallShape, Fields, Places
<1>3. ASSUME NEW st, Return(st) PROVE CallShape(call') /\ call'.at = "idle"
  BY <1>3, Returned
<1>. QED  BY <1>1, <1>2, <1>3 DEF AfterGood

LEMMA AfterRefusalShape ==
    ASSUME CallShape(call), AfterRefusal
    PROVE  CallShape(call') /\ call'.at \in {"send", "quit", "idle"}
<1>1. ASSUME NEW rest, call' = [call EXCEPT !.at = "send", !.todo = rest]
      PROVE  CallShape(call') /\ call'.at = "send"
  <2>1. PICK v : v = [call EXCEPT !.at = "send"]
    OBVIOUS
  <2>2. call' = [v EXCEPT !.todo = rest]
    BY <1>1, <2>1, Zenon
  <2>3. Fields(v) /\ v.at = "send"
    BY <2>1, FieldSet DEF CallShape, Fields
  <2>4. Fields(call') /\ call'.at = "send"
    BY <2>2, <2>3, FieldSet
  <2>. QED  BY <2>4 DEF CallShape, Fields, Places
<1>2. ASSUME call' = [call EXCEPT !.at = "quit", !.todo = << >>, !.end = "Failed"]
      PROVE  CallShape(call') /\ call'.at = "quit"
  <2>1. PICK v : v = [call EXCEPT !.at = "quit"]
    OBVIOUS
  <2>2. PICK w : w = [v EXCEPT !.todo = << >>]
    OBVIOUS
  <2>3. call' = [w EXCEPT !.end = "Failed"]
    BY <1>2, <2>1, <2>2, Zenon
  <2>4. Fields(v) /\ v.at = "quit"
    BY <2>1, FieldSet DEF CallShape, Fields
  <2>5. Fields(w) /\ w.at = "quit" /\ w.todo = << >>
    BY ZenonT(60), <2>2, <2>4, FieldSet
  <2>6. Fields(call') /\ call'.at = "quit" /\ call'.todo = << >>
    BY <2>3, <2>5 DEF Fields
  <2>. QED  BY <2>6 DEF CallShape, Fields, Places
<1>3. ASSUME Return("Failed") PROVE CallShape(call') /\ call'.at = "idle"
  BY <1>3, Returned
<1>. QED  BY <1>1, <1>2, <1>3 DEF AfterRefusal

LEMMA CommandAnsweredInStep == ASSUME StepInv, CommandAnswered PROVE StepInv'
<1>. DEFINE code == Head(wire).code
<1>1. CallShape(call) /\ At("reply") /\ wire # << >> /\ code # "bye"
  BY DEF StepInv, CommandAnswered
<1>2. CASE /\ TakeReply(call.id)
           /\ \/ Verb = "Hello" /\ code = "wait" /\ UNCHANGED call
              \/ code \in Good(Verb) /\ AfterGood(code)
              \/ code \notin Good(Verb) /\ Verb # "Hello" /\ AfterRefusal
  <2>1. /\ wire' = Tail(wire) /\ UNCHANGED <<asked, xfer, up, gaveUp>>
        /\ taken' = [of |-> Head(wire).id, as |-> call.id]
    BY <1>2 DEF TakeReply
  <2>2. ~ gaveUp => /\ Awaiting /\ taken'.of = taken'.as
                    /\ code = "wait" => Verb = "Hello" /\ (UNCHANGED call => Awaiting')
                    /\ code = "prelim" =>
                         Verb = "Transfer" /\ (call'.id = call.id => Transferring')
                    /\ code \notin {"wait", "prelim"} => Quiet'
    <3>. HAVE ~ gaveUp
    <3>1. Awaiting
      BY <1>1 DEF StepInv, InStep, At
    <3>. QED  BY <1>1, <2>1, <3>1, ReplyTaken
  <2>3. CASE Verb = "Hello" /\ code = "wait" /\ UNCHANGED call
    BY <1>1, <2>1, <2>2, <2>3 DEF StepInv, InStep, At
  <2>4. CASE code \in Good(Verb) /\ AfterGood(code)
    <3>1. Verb = "Transfer" => code = "prelim"
      BY <2>4 DEF Good
    <3>2. ~ (Verb = "Hello" /\ code = "wait")
      BY <2>4 DEF Good
    <3>3. /\ CallShape(call')
          /\ \/ Verb = "Transfer" /\ call'.at \in {"accept", "data"} /\ call'.id = call.id
             \/ Verb # "Transfer" /\ call'.at \in {"send", "idle"}
      BY <1>1, <2>4, AfterGoodShape
    <3>4. CASE Verb = "Transfer"
      BY <2>1, <2>2, <3>1, <3>3, <3>4 DEF StepInv, InStep
    <3>5. CASE Verb # "Transfer"
      BY <2>1, <2>2, <3>2, <3>3, <3>5, QuietInStep
    <3>. QED  BY <3>4, <3>5
  <2>5. CASE code \notin Good(Verb) /\ Verb # "Hello" /\ AfterRefusal
    <3>1. ~ (Verb = "Transfer" /\ code = "prelim")
      BY <2>5 DEF Good
    <3>2. CallShape(call') /\ call'.at \in {"send", "quit", "idle"}
      BY <1>1, <2>5, AfterRefusalShape
    <3>. QED  BY <2>1, <2>2, <2>5, <3>1, <3>2, QuietInStep
  <2>. QED  BY <1>2, <2>3, <2>4, <2>5
<1>3. CASE CloseControl /\ Return("Failed")
  BY <1>1, <1>3, Returned, ClosedInStep
<1>. QED  BY <1>2, <1>3 DEF CommandAnswered

LEMMA AcceptInStep == ASSUME StepInv, Accept PROVE StepInv'
<1>1. CallShape(call) /\ At("accept") /\ UNCHANGED <<serverVars, taken>>
  BY DEF StepInv, Accept
<1>2. CASE Goto("data") /\ UNCHANGED gaveUp
  <2>1. CallShape(call') /\ call'.at = "data" /\ call'.id = call.id
    BY <1>1, <1>2, Went DEF Places
  <2>2. ~ gaveUp => Transferring' /\ taken'.of = taken'.as
    BY <1>1, <2>1
    DEF StepInv, InStep, At, serverVars, Transferring, SaidNothing, SaidOne, Mine
  <2>. QED  BY <1>2, <2>1, <2>2 DEF StepInv, InStep
<1>3. ASSUME NEW st, Return(st), gaveUp' = (gaveUp \/ Owed) PROVE StepInv'
  BY <1>1, <1>3, Returned, GivenUpInStep
<1>. QED  BY <1>2, <1>3 DEF Accept

LEMMA BodyInStep == ASSUME StepInv, Body PROVE StepInv'
<1>1. CallShape(call) /\ At("data")
  BY DEF StepInv, Body
<1>2. ~ gaveUp => Transferring /\ taken.of = taken.as
  BY <1>1 DEF StepInv, InStep, At
<1>3. ASSUME NEW st, call' = [call EXCEPT !.at = "final", !.end = st],
             UNCHANGED <<serverVars, taken, gaveUp>>
      PROVE  StepInv'
  <2>1. PICK v : v = [call EXCEPT !.at = "final"]
    OBVIOUS
  <2>2. call' = [v EXCEPT !.end = st]
    BY <1>3, <2>1, Zenon
  <2>3. Fields(v) /\ v.at = "final" /\ v.id = call.id
    BY <1>1, <2>1, FieldSet DEF CallShape, Fields
  <2>4. Fields(call') /\ call'.at = "final" /\ call'.id = call.id
    BY <2>2, <2>3 DEF Fields
  <2>5. ~ gaveUp => Transferring' /\ taken'.of = taken'.as
    BY <1>2, <1>3, <2>4 DEF serverVars, Transferring, SaidNothing, SaidOne, Mine
  <2>. QED  BY <1>3, <2>4, <2>5 DEF StepInv, InStep, CallShape, Fields, Places
<1>4. CASE Post("Abor") /\ Goto("abort") /\ UNCHANGED <<xfer, wire, up, taken, gaveUp>>
  <2>1. CallShape(call') /\ call'.at = "abort"
    BY <1>1, <1>4, Went DEF Places
  <2>2. ASSUME ~ gaveUp PROVE Aborting'
    <3>1. Transferring
      BY <1>2, <2>2
    <3>2. CASE up
      <4>1. PICK command : command = [id |-> sent', verb |-> "Abor"]
        OBVIOUS
      <4>2. asked' = <<command>>
        BY <1>4, <3>1, <3>2, <4>1, Tuples DEF Post, Transferring
      <4>3. AborAsked'
        BY <4>1, <4>2 DEF AborAsked
      <4>4. wire = << >> \/ (xfer = 0 /\ \E r : r.code # "none" /\ wire = <<r>>)
        BY <3>1, <3>2 DEF Transferring, SaidNothing, SaidOne, Mine, Reply
      <4>. QED  BY <1>4, <4>3, <4>4 DEF Aborting
    <3>3. CASE ~ up
      BY <1>4, <3>1, <3>3 DEF Post, Transferring, Aborting, NothingOwed, SaidNothing, SaidOne
    <3>. QED  BY <3>2, <3>3
  <2>. QED  BY <1>2, <1>4, <2>1, <2>2 DEF StepInv, InStep
<1>5. CASE SendFails /\ Return("Cancelled")
  BY <1>1, <1>5, Returned, ClosedInStep DEF SendFails
<1>. QED  BY <1>3, <1>4, <1>5 DEF Body

LEMMA TransferAnsweredInStep == ASSUME StepInv, TransferAnswered PROVE StepInv'
<1>1. /\ CallShape(call) /\ At("final") /\ wire # << >> /\ Head(wire).code # "bye"
      /\ wire' = Tail(wire) /\ UNCHANGED <<asked, xfer, up, gaveUp>>
      /\ taken' = [of |-> Head(wire).id, as |-> call.id]
  BY DEF StepInv, TransferAnswered, TakeReply
<1>2. CallShape(call') /\ call'.at = "idle"
  BY <1>1, Returned DEF TransferAnswered
<1>3. ASSUME ~ gaveUp PROVE Quiet' /\ taken'.of = taken'.as
  <2>1. Transferring
    BY <1>1, <1>3 DEF StepInv, InStep, At
  <2>2. wire # <<Bye>>
    <3>1. PICK bye : bye = Bye
      OBVIOUS
    <3>. QED  BY <1>1, <3>1, Tuples DEF Bye, Reply
  <2>3. PICK code \in {"ok", "no"} : SaidOne(Mine(code)) /\ xfer = 0 /\ asked = << >>
    BY <1>1, <2>1, <2>2 DEF Transferring, SaidNothing
  <2>4. Head(wire) = Mine(code)
    BY <2>3, Tuples DEF SaidOne
  <2>5. wire' = << >> \/ (~ up /\ wire' = <<Bye>>)
    BY <1>1, <2>3, TailSaid
  <2>6. Quiet'
    BY <1>1, <2>3, <2>5 DEF Quiet, NothingOwed, SaidNothing, Bye
  <2>. QED  BY <1>1, <2>4, <2>6 DEF Mine, Reply
<1>. QED  BY <1>1, <1>2, <1>3, QuietInStep

LEMMA DrainFirstInStep == ASSUME StepInv, DrainFirst PROVE StepInv'
<1>1. CallShape(call) /\ At("abort")
  BY DEF StepInv, DrainFirst
<1>2. CASE /\ wire # << >> /\ wire' = Tail(wire) /\ Head(wire).code # "bye"
           /\ IF MoreAfter(Head(wire).code) THEN Goto("abort2") ELSE Return("Cancelled")
           /\ UNCHANGED <<asked, xfer, up, taken, gaveUp>>
  <2>1. ASSUME ~ gaveUp
        PROVE  /\ taken'.of = taken'.as /\ Aborted'
               /\ Head(wire).code = "none" => Quiet'
    <3>1. Aborting /\ taken.of = taken.as
      BY <1>1, <2>1 DEF StepInv, InStep, At
    <3>2. ASSUME NEW r, r.code # "none", wire = <<r>>, AborAsked, xfer = 0
          PROVE  Aborted' /\ Head(wire).code # "none"
      <4>1. wire' = << >> /\ Head(wire) = r
        BY <1>2, <3>2, Tuples
      <4>2. AborAsked'
        BY <1>2, <3>2 DEF AborAsked
      <4>. QED  BY <1>2, <3>2, <4>1, <4>2 DEF Aborted
    <3>3. ASSUME NothingOwed, SaidNothing PROVE Quiet'
      BY <1>2, <3>3, TailSaid DEF Quiet, NothingOwed, SaidNothing
    <3>4. ASSUME NEW r, NothingOwed, SaidOne(r) PROVE Quiet'
      BY <1>2, <3>4, TailSaid DEF Quiet, NothingOwed, SaidNothing, Bye
    <3>5. ASSUME NEW r, NEW q, r.code # "none", NothingOwed, SaidTwo(r, q)
          PROVE  Aborted' /\ Head(wire).code # "none"
      <4>1. Head(wire) = r
        BY <3>5, Tuples DEF SaidTwo
      <4>2. wire' = <<q>> \/ (~ up /\ wire' = <<q, Bye>>)
        BY <1>2, <3>5, TailSaid
      <4>3. SaidOne(q)'
        BY <1>2, <4>2 DEF SaidOne, Bye
      <4>. QED  BY <1>2, <3>5, <4>1, <4>3 DEF Aborted, NothingOwed
    <3>. QED  BY <1>2, <3>1, <3>2, <3>3, <3>4, <3>5 DEF Aborting, Aborted
  <2>2. CASE MoreAfter(Head(wire).code)
    <3>1. CallShape(call') /\ call'.at = "abort2"
      BY <1>1, <1>2, <2>2, Went DEF Places
    <3>. QED  BY <1>2, <2>1, <3>1 DEF StepInv, InStep
  <2>3. CASE ~ MoreAfter(Head(wire).code)
    BY <1>1, <1>2, <2>1, <2>3, Returned, QuietInStep DEF MoreAfter
  <2>. QED  BY <2>2, <2>3
<1>3. CASE CloseControl /\ Return("Cancelled")
  BY <1>1, <1>3, Returned, ClosedInStep
<1>. QED  BY <1>2, <1>3 DEF DrainFirst

LEMMA DrainSecondInStep == ASSUME StepInv, DrainSecond PROVE StepInv'
<1>1. CallShape(call) /\ At("abort2") /\ CallShape(call') /\ call'.at = "idle"
  BY Returned DEF StepInv, DrainSecond
<1>2. CASE wire # << >> /\ wire' = Tail(wire) /\ UNCHANGED <<asked, xfer, up, taken, gaveUp>>
  <2>1. ASSUME ~ gaveUp PROVE taken'.of = taken'.as /\ Quiet'
    <3>1. Aborted /\ taken.of = taken.as
      BY <1>1, <2>1 DEF StepInv, InStep, At
    <3>2. ASSUME Quiet PROVE Quiet'
      BY <1>2, <3>2, TailSaid DEF Quiet, NothingOwed, SaidNothing
    <3>3. ASSUME NEW r, NothingOwed, SaidOne(r) PROVE Quiet'
      BY <1>2, <3>3, TailSaid DEF Quiet, NothingOwed, SaidNothing, Bye
    <3>. QED  BY <1>2, <3>1, <3>2, <3>3 DEF Aborted
  <2>. QED  BY <1>1, <1>2, <2>1, QuietInStep
<1>3. CASE CloseControl
  BY <1>1, <1>3, ClosedInStep
<1>4. CASE gaveUp' = (gaveUp \/ Owed) /\ UNCHANGED <<serverVars, taken>>
  BY <1>1, <1>4, GivenUpInStep
<1>. QED  BY <1>2, <1>3, <1>4 DEF DrainSecond

LEMMA QuitInStep == ASSUME StepInv, Quit PROVE StepInv'
<1>1. CallShape(call) /\ At("quit")
  BY DEF StepInv, Quit
<1>2. CASE Goto("bye") /\ UNCHANGED <<taken, gaveUp>>
  <2>1. CallShape(call') /\ call'.at = "bye"
    BY <1>1, <1>2, Went DEF Places, CallShape, At
  <2>. QED  BY <1>2, <2>1 DEF StepInv, InStep
<1>3. CASE CloseControl /\ AfterQuit
  BY <1>1, <1>3, AfterQuitShape, ClosedInStep DEF At
<1>. QED  BY <1>2, <1>3 DEF Quit, SendFails

LEMMA QuitAnsweredInStep == ASSUME StepInv, QuitAnswered PROVE StepInv'
BY AfterQuitShape, ClosedInStep DEF StepInv, QuitAnswered, At

LEMMA ConnectTcpInStep == ASSUME StepInv, ConnectTcp PROVE StepInv'
<1>1. CallShape(call) /\ At("tcp") /\ UNCHANGED <<xfer, wire, taken, gaveUp>>
  BY DEF StepInv, ConnectTcp
<1>2. ~ gaveUp => Disconnected /\ taken.of = taken.as
  BY <1>1 DEF StepInv, InStep, At
<1>3. CASE /\ asked' = <<[id |-> sent', verb |-> "Hello"]>>
           /\ call' = [call EXCEPT !.at = "reply", !.id = sent']
  <2>1. CallShape(call') /\ call'.at = "reply" /\ call'.id = sent' /\ call'.todo = call.todo
    BY <1>1, <1>3, SentShape
  <2>2. Verb' = "Hello"
    BY <1>1, <2>1 DEF CallShape, At, Verb, Login
  <2>3. ~ gaveUp => Unanswered'
    BY <1>1, <1>2, <1>3, <2>1, <2>2 DEF Disconnected, NothingOwed, Unanswered
  <2>. QED  BY <1>1, <1>2, <2>1, <2>3 DEF StepInv, InStep, Awaiting
<1>4. ASSUME NEW st, Return(st), UNCHANGED <<up, asked>> PROVE StepInv'
  <2>1. gaveUp' \/ (taken'.of = taken'.as /\ Quiet')
    BY <1>1, <1>2, <1>4 DEF Disconnected, NothingOwed, Quiet, SaidNothing
  <2>. QED  BY <1>1, <1>4, <2>1, Returned, QuietInStep
<1>. QED  BY <1>3, <1>4 DEF ConnectTcp

-----------------------------------------------------------------------------

LEMMA StepInit == Init => StepInv
<1>. SUFFICES ASSUME Init PROVE StepInv
  OBVIOUS
<1>1. CallShape(call) /\ call.at = "idle"
  BY NewCallShape DEF Init
<1>2. Quiet /\ taken.of = taken.as
  BY DEF Init, Quiet, NothingOwed, SaidNothing, NothingTaken
<1>. QED  BY <1>1, <1>2 DEF StepInv, InStep

LEMMA StepKeeps == StepInv /\ [Next]_vars => StepInv'
<1>. SUFFICES ASSUME StepInv, [Next]_vars PROVE StepInv'
  OBVIOUS
<1>1. CASE UNCHANGED vars
  BY <1>1 DEF vars, StepInv, InStep, Quiet, Disconnected, Awaiting, Unanswered, Gone, Answered,
              Begun, Transferring, Aborting, Aborted, AborAsked, NothingOwed, SaidNothing,
              SaidOne, SaidTwo, Mine, Verb
<1>2. CASE Server
  BY <1>2, ServerKeeps
<1>3. CASE StartCall \/ StartConnect
  BY <1>3, StartsInStep
<1>4. CASE Client
  BY <1>4, CommandInStep, NoReplyInStep, CommandAnsweredInStep, AcceptInStep, BodyInStep,
     TransferAnsweredInStep, DrainFirstInStep, DrainSecondInStep, QuitInStep,
     QuitAnsweredInStep, ConnectTcpInStep DEF Client
<1>. QED  BY <1>1, <1>2, <1>3, <1>4 DEF Next

\* Where a call is determines what the server owes and what has been said, as
\* long as no reply has been given up on since the connection was made.
THEOREM StepInvariant == Spec => []StepInv
BY StepInit, StepKeeps, PTL DEF Spec

\* The reply that is taken for a command's answer is that command's, with the
\* same proviso, for any number of commands, transfers, ABORs and silences.
THEOREM RepliesStayInStep == Spec => []RepliesInStep
<1>1. StepInv => RepliesInStep
  BY DEF StepInv, InStep, RepliesInStep
<1>. QED  BY <1>1, StepInvariant, PTL

-----------------------------------------------------------------------------
(* Answered Ok means carried out.  What is on its way to a command or to a    *)
(* transfer says "done" only of a command that was done.                      *)

CommandVerbs == {"Simple", "From", "To", "Epsv", "Pasv", "Port", "Transfer"}

\* Replies that may be on their way to a call that is not logging in.
Told == {r \in [id : {0, call.id}, code : {"prelim", "ok", "more", "no", "wait", "bye"}] :
            r.code \in {"ok", "more"} => performed = call.id}

DoneInv ==
    call.kind = "command" =>
        /\ call.at \notin {"quit", "bye", "tcp"}
        /\ call.todo \in Seq(CommandVerbs)
        /\ call.at \in {"send", "reply"} => call.todo # << >>
        /\ \/ gaveUp
           \/ /\ call.at \in {"reply", "accept", "data", "final"} => wire \in Seq(Told)
              /\ call.at = "idle" /\ call.st = "Ok" => call.id = performed

LEMMA ToldOf ==
    /\ \A code \in {"prelim", "no", "wait"} : Reply(call.id, code) \in Told
    /\ performed = call.id => \A code \in {"ok", "more"} : Reply(call.id, code) \in Told
    /\ Bye \in Told
BY DEF Told, Reply, Bye

\* What was true to say stays so while the call goes on with its command.
LEMMA ToldKept ==
    ASSUME call'.id = call.id, performed' \in {performed, call.id}
    PROVE  Told \subseteq Told'
BY DEF Told

LEMMA SeqKept ==
    ASSUME NEW S, NEW T, S \subseteq T, NEW s \in Seq(S)
    PROVE  s \in Seq(T)
OBVIOUS

LEMMA SeqAppend ==
    ASSUME NEW S, NEW T, S \subseteq T, NEW s \in Seq(S), NEW e \in T
    PROVE  Append(s, e) \in Seq(T)
<1>1. s \in Seq(T)
  BY SeqKept
<1>. QED  BY <1>1

LEMMA ServerTellsTruth ==
    ASSUME StepInv, DoneInv, Server, call.kind = "command", ~ gaveUp,
           call.at \in {"reply", "accept", "data", "final"}
    PROVE  wire' \in Seq(Told')
<1>1. UNCHANGED call
  BY DEF Server, ServerAnswers, ServerWaits, ServerEndsTransfer, ServerAborts, ServerLeaves,
         clientVars
<1>2. wire \in Seq(Told)
  BY DEF DoneInv
<1>3. asked # << >> => Oldest.id = call.id /\ Oldest.verb \in CommandVerbs
  <2>. HAVE asked # << >>
  <2>1. call.at = "reply" /\ Unanswered
    BY DEF StepInv, InStep, Awaiting, Gone, Answered, Begun, Transferring, NothingOwed
  <2>2. Verb \in CommandVerbs
    BY <2>1 DEF DoneInv, Verb
  <2>3. PICK command : command = [id |-> call.id, verb |-> Verb] /\ asked = <<command>>
    BY <2>1 DEF Unanswered
  <2>4. Oldest = command
    BY <2>3, Tuples DEF Oldest
  <2>. QED  BY <2>2, <2>3, <2>4
<1>4. xfer # 0 => xfer = call.id
  BY DEF StepInv, InStep, Awaiting, Unanswered, Gone, Answered, Begun, Transferring, NothingOwed
<1>5. ~ ServerWaits /\ ~ ServerAborts
  BY <1>3 DEF ServerWaits, ServerAborts, CommandVerbs
<1>6. CASE ServerAnswers
  <2>1. PICK code \in Codes(Oldest.verb) :
            /\ wire' = Append(wire, Reply(call.id, code))
            /\ performed' = IF code \in {"ok", "more"} THEN call.id ELSE performed
    BY <1>3, <1>6 DEF ServerAnswers, Perform
  <2>2. code \in {"prelim", "no", "ok", "more"}
    BY <2>1 DEF Codes
  <2>3. Reply(call.id, code) \in Told'
    <3>1. Reply(call.id, code)' \in Told'
      BY <1>1, <2>1, <2>2 DEF Told, Reply
    <3>. QED  BY <1>1, <3>1 DEF Reply
  <2>4. Told \subseteq Told'
    BY <1>1, <2>1, ToldKept
  <2>. QED  BY <1>2, <2>1, <2>3, <2>4, SeqAppend
<1>7. CASE ServerEndsTransfer
  <2>1. PICK code \in {"ok", "no"} :
            /\ wire' = Append(wire, Reply(call.id, code))
            /\ performed' = IF code = "ok" THEN call.id ELSE performed
    BY <1>4, <1>7 DEF ServerEndsTransfer, Perform
  <2>3. Reply(call.id, code) \in Told'
    BY <1>1, <2>1 DEF Told, Reply
  <2>4. Told \subseteq Told'
    BY <1>1, <2>1, ToldKept
  <2>. QED  BY <1>2, <2>1, <2>3, <2>4, SeqAppend
<1>8. CASE ServerLeaves
  <2>1. wire' = wire \/ wire' = Append(wire, Bye)
    BY <1>8 DEF ServerLeaves, Bye
  <2>2. Told \subseteq Told' /\ Bye \in Told'
    BY <1>1, <1>8 DEF ServerLeaves, Told, Bye, Reply
  <2>. QED  BY <1>2, <2>1, <2>2, SeqKept, SeqAppend
<1>. QED  BY <1>5, <1>6, <1>7, <1>8 DEF Server

LEMMA ServerDone == ASSUME StepInv, DoneInv, Server PROVE DoneInv'
<1>1. UNCHANGED <<call, gaveUp>>
  BY DEF Server, ServerAnswers, ServerWaits, ServerEndsTransfer, ServerAborts, ServerLeaves,
         clientVars
<1>2. ASSUME call.kind = "command", ~ gaveUp, call.at = "idle" PROVE UNCHANGED performed
  <2>1. Quiet
    BY <1>2 DEF StepInv, InStep
  <2>. QED  BY <2>1 DEF Quiet, NothingOwed, Server, ServerAnswers, ServerWaits,
                        ServerEndsTransfer, ServerAborts, ServerLeaves
<1>. QED  BY <1>1, <1>2, ServerTellsTruth DEF DoneInv

\* All that Return and Goto leave as it was.
LEMMA ReturnedWith ==
    ASSUME CallShape(call), NEW st, Return(st)
    PROVE  call'.kind = call.kind /\ call'.id = call.id /\ call'.st = st /\ call'.todo = << >>
<1>1. PICK v : v = [call EXCEPT !.at = "idle"]
  OBVIOUS
<1>2. PICK w : w = [v EXCEPT !.todo = << >>]
  OBVIOUS
<1>3. call' = [w EXCEPT !.st = st]
  BY <1>1, <1>2, Zenon DEF Return
<1>4. Fields(v) /\ v.kind = call.kind /\ v.id = call.id
  BY <1>1 DEF CallShape, Fields
<1>5. Fields(w) /\ w.kind = call.kind /\ w.id = call.id /\ w.todo = << >>
  BY <1>2, <1>4 DEF Fields
<1>. QED  BY <1>3, <1>5 DEF Fields

LEMMA WentWith ==
    ASSUME CallShape(call), NEW at, Goto(at)
    PROVE  /\ call'.kind = call.kind /\ call'.id = call.id /\ call'.todo = call.todo
           /\ call'.at = at
BY DEF CallShape, Goto

\* A call that ends with anything but Ok claims nothing.
LEMMA FailedDone ==
    ASSUME StepInv, NEW st, st # "Ok" \/ call.kind # "command", Return(st)
    PROVE  DoneInv'
<1>1. CallShape(call)
  BY DEF StepInv
<1>2. /\ call'.at = "idle" /\ call'.kind = call.kind /\ call'.st = st
      /\ call'.todo = << >>
  BY <1>1, Returned, ReturnedWith
<1>3. << >> \in Seq(CommandVerbs)
  OBVIOUS
<1>. QED  BY <1>2, <1>3 DEF DoneInv

LEMMA StartsDone == ASSUME StepInv, DoneInv, StartCall \/ StartConnect PROVE DoneInv'
<1>1. CASE StartConnect
  BY <1>1 DEF StartConnect, NewCall, DoneInv
<1>2. CASE StartCall
  <2>1. PICK todo \in Simple \cup RenameRemote \cup Transfers \cup List :
            call' = NewCall("command", todo, "send")
    BY <1>2 DEF StartCall
  <2>2. call'.kind = "command" /\ call'.at = "send" /\ call'.todo = todo
    BY <2>1 DEF NewCall
  <2>3. todo \in Seq(CommandVerbs) /\ todo # << >>
    <3>1. \A open \in Opening : open \in CommandVerbs
      BY DEF Opening, CommandVerbs
    <3>2. \A open \in Opening :
             /\ <<open, "Transfer">> \in Seq(CommandVerbs) /\ <<open, "Transfer">> # << >>
             /\ <<"Simple">> \o <<open, "Transfer">> \in Seq(CommandVerbs)
             /\ <<"Simple">> \o <<open, "Transfer">> # << >>
      BY <3>1 DEF CommandVerbs
    <3>3. <<"Simple">> \in Seq(CommandVerbs) /\ <<"From", "To">> \in Seq(CommandVerbs)
      BY DEF CommandVerbs
    <3>4. <<"Simple">> # << >> /\ <<"From", "To">> # << >>
      OBVIOUS
    <3>5. CASE todo \in Simple \cup RenameRemote
      BY <3>3, <3>4, <3>5 DEF Simple, RenameRemote
    <3>6. CASE todo \in Transfers
      BY <3>2, <3>6 DEF Transfers
    <3>7. CASE todo \in List
      BY <3>2, <3>7 DEF List, Transfers
    <3>. QED  BY <2>1, <3>5, <3>6, <3>7
  <2>. QED  BY <2>2, <2>3 DEF DoneInv
<1>. QED  BY <1>1, <1>2

LEMMA CommandDone == ASSUME StepInv, DoneInv, Command PROVE DoneInv'
<1>1. CallShape(call) /\ call.at = "send"
  BY DEF StepInv, Command, At
<1>2. CASE /\ Post(Verb) /\ call' = [call EXCEPT !.at = "reply", !.id = sent']
           /\ UNCHANGED <<xfer, wire, up, performed, taken, gaveUp>>
  <2>1. call'.at = "reply" /\ call'.id = sent' /\ call'.todo = call.todo
    BY <1>1, <1>2, SentShape
  <2>2. call'.kind = call.kind
    BY <1>1, <1>2 DEF CallShape
  <2>3. ~ gaveUp => wire' \in Seq(Told')
    <3>. HAVE ~ gaveUp
    <3>1. wire = << >> \/ wire = <<Bye>>
      BY <1>1 DEF StepInv, InStep, Quiet, SaidNothing
    <3>2. PICK last : last = Bye /\ last \in Told'
      <4>1. Bye \in Told'
        BY DEF Told, Bye, Reply
      <4>. QED  BY <4>1
    <3>3. << >> \in Seq(Told') /\ <<last>> \in Seq(Told')
      BY <3>2
    <3>. QED  BY <1>2, <3>1, <3>2, <3>3
  <2>. QED  BY <1>1, <1>2, <2>1, <2>2, <2>3 DEF DoneInv
<1>3. CASE Return("ConnectionLost") \/ Return("Failed")
  BY <1>3, FailedDone
<1>. QED  BY <1>2, <1>3 DEF Command

LEMMA AnsweredDone == ASSUME StepInv, DoneInv, CommandAnswered PROVE DoneInv'
<1>. DEFINE code == Head(wire).code
<1>1. CallShape(call) /\ call.at = "reply" /\ wire # << >>
  BY DEF StepInv, CommandAnswered, At
<1>2. CASE call.kind # "command"
  <2>1. call'.kind = call.kind
    BY <1>1, ReturnedWith, WentWith
    DEF CommandAnswered, AfterGood, AfterRefusal, CallShape
  <2>. QED  BY <1>2, <2>1 DEF DoneInv
<1>3. CASE CloseControl /\ Return("Failed")
  BY <1>3, FailedDone
<1>4. CASE /\ call.kind = "command" /\ TakeReply(call.id)
           /\ \/ code \in Good(Verb) /\ AfterGood(code)
              \/ AfterRefusal
  <2>1. /\ call.todo \in Seq(CommandVerbs) /\ call.todo # << >> /\ Verb \in CommandVerbs
        /\ Tail(call.todo) \in Seq(CommandVerbs)
    BY <1>1, <1>4 DEF DoneInv, Verb
  <2>2. UNCHANGED <<performed, gaveUp>> /\ wire' = Tail(wire)
    BY <1>4 DEF TakeReply
  <2>3. ASSUME ~ gaveUp
        PROVE  /\ code \in {"ok", "more"} => performed = call.id
               /\ code # "none" /\ Tail(wire) \in Seq(Told)
    <3>1. wire \in Seq(Told)
      BY <1>1, <1>4, <2>3 DEF DoneInv
    <3>2. Head(wire) \in Told /\ Tail(wire) \in Seq(Told)
      BY <1>1, <3>1
    <3>. QED  BY <3>2 DEF Told
  <2>4. ASSUME NEW rest \in Seq(CommandVerbs), rest # << >>, NEW v,
               v = [call EXCEPT !.at = "send", !.todo = rest],
               call' = v \/ \E active : call' = [v EXCEPT !.active = active]
        PROVE  DoneInv'
    <3>1. Fields(v) /\ v.at = "send" /\ v.todo = rest
      BY <1>1, <2>4 DEF CallShape, Fields
    <3>2. call'.at = "send" /\ call'.todo = rest
      BY <2>4, <3>1 DEF Fields
    <3>. QED  BY <2>4, <3>2 DEF DoneInv
  <2>5. CASE code \in Good(Verb) /\ AfterGood(code)
    <3>1. CASE Verb = "Transfer" /\ Goto(IF call.active THEN "accept" ELSE "data")
      <4>1. call'.kind = "command" /\ call'.id = call.id /\ call'.todo = call.todo
        BY <1>1, <1>4, <3>1, WentWith
      <4>2. call'.at \in {"accept", "data"}
        BY <1>1, <3>1, WentWith
      <4>3. ~ gaveUp => wire' \in Seq(Told')
        BY <2>2, <2>3, <4>1, ToldKept, SeqKept
      <4>. QED  BY <2>1, <2>2, <4>1, <4>2, <4>3 DEF DoneInv
    <3>2. CASE /\ Verb # "Transfer" /\ Len(call.todo) > 1
               /\ \E rest \in {Tail(call.todo)} : \E active :
                     call' = [call EXCEPT !.at = "send", !.todo = rest, !.active = active]
      <4>1. Tail(call.todo) # << >>
        <5>1. Len(Tail(call.todo)) = Len(call.todo) - 1 /\ Len(call.todo) \in Nat
          BY <2>1
        <5>. QED  BY <3>2, <5>1
      <4>2. PICK v : v = [call EXCEPT !.at = "send", !.todo = Tail(call.todo)]
        OBVIOUS
      <4>3. \E active : call' = [v EXCEPT !.active = active]
        BY <3>2, <4>2, Zenon
      <4>. QED  BY <2>1, <2>4, <4>1, <4>2, <4>3
    <3>3. CASE Verb # "Transfer" /\ Return("Ok")
      <4>1. /\ call'.kind = "command" /\ call'.id = call.id /\ call'.at = "idle"
            /\ call'.todo = << >>
        BY <1>1, <1>4, <3>3, Returned, ReturnedWith
      <4>2. ~ gaveUp => performed = call.id
        BY <2>1, <2>3, <2>5, <3>3 DEF Good, CommandVerbs
      <4>3. << >> \in Seq(CommandVerbs)
        OBVIOUS
      <4>. QED  BY <2>2, <4>1, <4>2, <4>3 DEF DoneInv
    <3>4. CASE \E st \in {"Failed", "Cancelled"} : Return(st)
      BY <3>4, FailedDone
    <3>5. Verb # "User"
      BY <2>1 DEF CommandVerbs
    <3>. QED  BY <2>5, <3>1, <3>2, <3>3, <3>4, <3>5 DEF AfterGood
  <2>6. CASE AfterRefusal
    <3>1. CASE call' = [call EXCEPT !.at = "send", !.todo = <<"Pasv">> \o Tail(@)]
      <4>1. PICK rest : rest = <<"Pasv">> \o Tail(call.todo)
        OBVIOUS
      <4>2. rest \in Seq(CommandVerbs) /\ rest # << >>
        BY <2>1, <4>1 DEF CommandVerbs
      <4>3. call' = [call EXCEPT !.at = "send", !.todo = rest]
        BY <1>1, <3>1, <4>1 DEF CallShape
      <4>. QED  BY <2>4, <4>2, <4>3
    <3>2. CASE Return("Failed")
      BY <3>2, FailedDone
    <3>3. Verb \notin {"User", "Pass"}
      BY <2>1 DEF CommandVerbs
    <3>. QED  BY <2>6, <3>1, <3>2, <3>3 DEF AfterRefusal
  <2>. QED  BY <1>4, <2>5, <2>6
<1>5. CASE call.kind = "command" /\ Verb = "Hello"
  BY <1>1, <1>5 DEF DoneInv, Verb, CommandVerbs
<1>. QED  BY <1>2, <1>3, <1>4, <1>5 DEF CommandAnswered

LEMMA TransferDone ==
    ASSUME StepInv, DoneInv, Accept \/ Body \/ TransferAnswered \/ DrainFirst \/ DrainSecond
    PROVE  DoneInv'
<1>1. CallShape(call)
  BY DEF StepInv
<1>2. ASSUME NEW at \in {"data", "abort", "abort2"}, Goto(at),
             call.at \in {"accept", "data", "abort"},
             gaveUp' = gaveUp,
             at = "data" => call.at = "accept" /\ UNCHANGED <<wire, performed>>
      PROVE  DoneInv'
  <2>1. /\ call'.kind = call.kind /\ call'.id = call.id /\ call'.todo = call.todo
        /\ call'.at = at
    BY <1>1, <1>2, WentWith
  <2>2. at = "data" => (~ gaveUp /\ call.kind = "command" => wire' \in Seq(Told'))
    BY <1>2, <2>1 DEF DoneInv, Told
  <2>. QED  BY <1>2, <2>1, <2>2 DEF DoneInv
<1>3. CASE Accept
  BY <1>2, <1>3, FailedDone DEF Accept, At, serverVars
<1>4. CASE Body
  <2>1. ASSUME NEW st, call' = [call EXCEPT !.at = "final", !.end = st],
               UNCHANGED <<serverVars, gaveUp>>
        PROVE  DoneInv'
    <3>1. PICK v : v = [call EXCEPT !.at = "final"]
      OBVIOUS
    <3>2. call' = [v EXCEPT !.end = st]
      BY <2>1, <3>1, Zenon
    <3>3. Fields(v) /\ v.at = "final" /\ v.id = call.id /\ v.kind = call.kind /\ v.todo = call.todo
      BY <1>1, <3>1 DEF CallShape, Fields
    <3>4. /\ call'.at = "final" /\ call'.id = call.id /\ call'.kind = call.kind
          /\ call'.todo = call.todo
      BY <3>2, <3>3 DEF Fields
    <3>5. ~ gaveUp /\ call.kind = "command" => wire' \in Seq(Told')
      BY <1>4, <2>1, <3>4 DEF Body, At, DoneInv, Told, serverVars
    <3>. QED  BY <2>1, <3>4, <3>5 DEF DoneInv
  <2>2. CASE Goto("abort") /\ UNCHANGED gaveUp
    BY <1>2, <1>4, <2>2 DEF Body, At
  <2>3. CASE Return("Cancelled")
    BY <2>3, FailedDone
  <2>. QED  BY <1>4, <2>1, <2>2, <2>3 DEF Body
<1>5. CASE TransferAnswered
  <2>1. PICK st : st = FinalStatus(Head(wire).code)
    OBVIOUS
  <2>2. Return(st)
    BY <1>5, <2>1 DEF TransferAnswered
  <2>3. call'.kind = call.kind /\ call'.id = call.id /\ call'.at = "idle" /\ call'.st = st
        /\ call'.todo = << >>
    BY <1>1, <2>2, Returned, ReturnedWith
  <2>4. ASSUME ~ gaveUp, call.kind = "command", st = "Ok" PROVE call.id = performed
    <3>1. wire \in Seq(Told) /\ wire # << >>
      BY <1>5, <2>4 DEF TransferAnswered, At, DoneInv
    <3>2. Head(wire) \in Told
      BY <3>1
    <3>3. Head(wire).code \in {"ok", "none"}
      BY <2>1, <2>4 DEF FinalStatus
    <3>. QED  BY <3>2, <3>3 DEF Told
  <2>5. << >> \in Seq(CommandVerbs)
    OBVIOUS
  <2>. QED  BY <1>5, <2>3, <2>4, <2>5 DEF DoneInv, TransferAnswered, TakeReply
<1>6. CASE DrainFirst
  BY <1>2, <1>6, FailedDone DEF DrainFirst, At
<1>7. CASE DrainSecond
  BY <1>7, FailedDone DEF DrainSecond
<1>. QED  BY <1>3, <1>4, <1>5, <1>6, <1>7

\* To connect is no command: nothing is claimed.
LEMMA ConnectDone ==
    ASSUME StepInv, DoneInv, Quit \/ QuitAnswered \/ ConnectTcp
    PROVE  DoneInv'
<1>1. CallShape(call) /\ call.kind # "command"
  BY DEF StepInv, DoneInv, Quit, QuitAnswered, ConnectTcp, At
<1>2. call'.kind = call.kind
  BY <1>1, ReturnedWith, WentWith DEF Quit, QuitAnswered, ConnectTcp, AfterQuit, CallShape
<1>. QED  BY <1>1, <1>2 DEF DoneInv

LEMMA DoneKeeps == StepInv /\ DoneInv /\ [Next]_vars => DoneInv'
<1>. SUFFICES ASSUME StepInv, DoneInv, [Next]_vars PROVE DoneInv'
  OBVIOUS
<1>1. CASE UNCHANGED vars
  BY <1>1 DEF vars, DoneInv, Told
<1>2. CASE NoReply
  BY <1>2, FailedDone DEF NoReply
<1>. QED  BY <1>1, <1>2, ServerDone, StartsDone, CommandDone, AnsweredDone, TransferDone,
            ConnectDone DEF Next, Client

\* A command or a transfer that is answered Ok was carried out by the server,
\* as long as no reply has been given up on since the connection was made.
THEOREM OkIsDone == Spec => []OkMeansDone
<1>1. Init => DoneInv
  BY DEF Init, NewCall, DoneInv
<1>2. DoneInv => OkMeansDone
  BY DEF DoneInv, OkMeansDone, At
<1>. QED  BY <1>1, <1>2, DoneKeeps, StepInvariant, PTL DEF Spec
=============================================================================
