------------------------------ MODULE FtpClient ------------------------------
(* The control connection of the FTP client (FtpClient.cpp): each call of the *)
(* panel sends commands one at a time and takes the next reply that comes for *)
(* the answer.  Nothing in a reply says which command it answers, so client   *)
(* and server must stay in step, also when the user presses Esc in the middle *)
(* of a transfer, the server is silent, or the data connection never comes.   *)
(*                                                                            *)
(* A command is known by its number; a reply is a number and a kind of code:  *)
(* "prelim" (1xx), "ok" (2xx), "none" (225), "more" (3xx), "no" (4xx, 5xx),   *)
(* "wait" (120) and "bye" (421).                                              *)
EXTENDS Naturals, Sequences, FiniteSets

CONSTANT MaxSent \* bound: commands sent after which no call begins

ASSUME FtpAssumption == MaxSent \in Nat

VARIABLES
    control,    \* control_ is a socket
    epsvWorks,  \* epsvWorks_
    call,       \* the call in progress: what it has still to send, and where it is
    asked,      \* commands the server has not answered
    xfer,       \* the transfer command the server is busy with, 0 for none
    wire,       \* replies the client has not taken
    up,         \* the server is there
    sent,       \* the last command's number
    performed,  \* history: the last command carried out while it was the latest sent
    taken,      \* history: the last reply taken, and the command it was taken for
    gaveUp      \* history: a reply was given up on while the connection stays

vars == <<control, epsvWorks, call, asked, xfer, wire, up, sent, performed, taken, gaveUp>>
serverVars == <<asked, xfer, wire, up, performed>>
clientVars == <<control, epsvWorks, call, sent, taken, gaveUp>>

-----------------------------------------------------------------------------
(* What the calls send.                                                       *)

\* Ways to open the data connection: passive (EPSV, or PASV once EPSV was
\* refused) or active.
Opening == {IF epsvWorks THEN "Epsv" ELSE "Pasv", "Port"}

Simple == {<<"Simple">>}            \* PWD, CWD, MKD, RMD, DELE
RenameRemote == {<<"From", "To">>}
Transfers == {<<open, "Transfer">> : open \in Opening}
List == {<<"Simple">> \o t : t \in Transfers}
Login == <<"Hello", "User", "Pass", "Feat", "Type">>

AnyCode == {"prelim", "ok", "none", "more", "no", "wait"}

\* The codes a call goes on after.
Good(verb) ==
    IF verb = "Transfer" THEN {"prelim"}
    ELSE IF verb = "From" THEN {"more"}
    ELSE IF verb = "User" THEN {"more", "ok"}
    ELSE IF verb \in {"Feat", "Type"} THEN AnyCode
    ELSE {"ok", "none"}

-----------------------------------------------------------------------------
(* The server (external).                                                     *)

Codes(verb) ==
    IF verb = "Transfer" THEN {"prelim", "no"}
    ELSE IF verb = "From" THEN {"more", "no"}
    ELSE IF verb = "User" THEN {"more", "ok", "no"}
    ELSE {"ok", "no"}

Reply(id, code) == [id |-> id, code |-> code]
Oldest == Head(asked)
Perform(id) == IF id = call.id THEN id ELSE performed

ServerAnswers ==
    /\ up /\ xfer = 0 /\ asked # << >> /\ Oldest.verb # "Abor"
    /\ \E code \in Codes(Oldest.verb) :
          /\ wire' = Append(wire, Reply(Oldest.id, code))
          /\ xfer' = IF code = "prelim" THEN Oldest.id ELSE 0
          /\ performed' = IF code \in {"ok", "more"} THEN Perform(Oldest.id) ELSE performed
    /\ asked' = Tail(asked)
    /\ UNCHANGED <<up, clientVars>>

\* Not yet ready: 120, once, with the real greeting to come.
ServerWaits ==
    /\ up /\ asked # << >> /\ Oldest.verb = "Hello"
    /\ wire = << >> /\ taken.of # Oldest.id
    /\ wire' = <<Reply(Oldest.id, "wait")>>
    /\ UNCHANGED <<asked, xfer, up, performed, clientVars>>

ServerEndsTransfer ==
    /\ up /\ xfer # 0
    /\ \/ wire' = Append(wire, Reply(xfer, "ok")) /\ performed' = Perform(xfer)
       \/ wire' = Append(wire, Reply(xfer, "no")) /\ UNCHANGED performed
    /\ xfer' = 0
    /\ UNCHANGED <<asked, up, clientVars>>

\* ABOR: usually two answers, the transfer's and its own, sometimes one of them.
ServerAborts ==
    /\ up /\ asked # << >> /\ Oldest.verb = "Abor"
    /\ LET failed == Reply(xfer, "no")
           own    == {Reply(Oldest.id, "ok"), Reply(Oldest.id, "none")}
       IN  \/ \E r \in own : wire' = Append(wire, r)
           \/ xfer # 0 /\ wire' = Append(wire, failed)
           \/ xfer # 0 /\ \E r \in own : wire' = wire \o <<failed, r>>
    /\ xfer' = 0
    /\ asked' = Tail(asked)
    /\ UNCHANGED <<up, performed, clientVars>>

\* The server goes away, perhaps with a last word.
ServerLeaves ==
    /\ up /\ control
    /\ up' = FALSE /\ asked' = << >> /\ xfer' = 0
    /\ wire' \in {wire, Append(wire, Reply(0, "bye"))}
    /\ UNCHANGED <<performed, clientVars>>

Server == ServerAnswers \/ ServerWaits \/ ServerEndsTransfer \/ ServerAborts \/ ServerLeaves

-----------------------------------------------------------------------------
(* Parts of the client's steps.                                               *)

NothingTaken == [of |-> 0, as |-> 0]

\* CloseControl: what was under way on the connection is of no interest now.
CloseControl ==
    /\ control' = FALSE
    /\ asked' = << >> /\ wire' = << >> /\ xfer' = 0
    /\ taken' = NothingTaken /\ gaveUp' = FALSE
    /\ UNCHANGED <<up, performed>>

Return(st) == call' = [call EXCEPT !.at = "idle", !.todo = << >>, !.st = st]
Goto(at) == call' = [call EXCEPT !.at = at]
At(at) == call.at = at
Verb == Head(call.todo)
Owed == asked # << >> \/ xfer # 0 \/ wire # << >>

\* SendLine on a connection that is up or not known to be down; a line always
\* fits into the socket's buffer.
Post(verb) ==
    /\ sent' = sent + 1
    /\ asked' = IF up THEN Append(asked, [id |-> sent', verb |-> verb]) ELSE asked

SendFails == (~ control \/ ~ up) /\ CloseControl

\* ReadReply takes what came first.
TakeReply(as) ==
    /\ wire # << >>
    /\ wire' = Tail(wire)
    /\ taken' = [of |-> Head(wire).id, as |-> as]
    /\ UNCHANGED <<control, asked, xfer, up, performed, gaveUp>>

\* Mutant of Silence: only a connection that is known to be lost ends the wait.
SilenceNoticed == wire = << >> /\ ~ up

\* No reply within the time-out, or a lost connection: ReadReply closes it.
Silence == wire = << >>

-----------------------------------------------------------------------------
(* The calls.                                                                 *)

\* end: what the call answers when it gets to its end.
NewCall(kind, todo, at) ==
    [kind |-> kind, todo |-> todo, at |-> at, id |-> sent, st |-> "Ok", end |-> "Ok",
     active |-> FALSE]

StartCall ==
    /\ At("idle") /\ sent < MaxSent
    /\ \E todo \in Simple \cup RenameRemote \cup Transfers \cup List :
          call' = NewCall("command", todo, "send")
    /\ UNCHANGED <<control, epsvWorks, serverVars, sent, taken, gaveUp>>

\* Connect begins with Disconnect.
StartConnect ==
    /\ At("idle") /\ sent < MaxSent
    /\ \E todo \in {Login, << >>} : call' = NewCall("connect", todo, "quit")
    /\ UNCHANGED <<control, epsvWorks, serverVars, sent, taken, gaveUp>>

\* OpenData needs the control connection's address, and a listener for PORT.
DataVerbs == {"Epsv", "Pasv", "Port"}

\* Command: SendLine, then ReadReply.
Command ==
    /\ At("send")
    /\ \/ /\ control
          /\ Post(Verb)
          /\ call' = [call EXCEPT !.at = "reply", !.id = sent']
          /\ UNCHANGED <<control, xfer, wire, up, performed, taken, gaveUp>>
       \/ /\ control \/ Verb \notin DataVerbs
          /\ SendFails /\ Return("ConnectionLost") /\ UNCHANGED sent
       \/ /\ Verb \in DataVerbs /\ Return("Failed")
          /\ UNCHANGED <<control, serverVars, sent, taken, gaveUp>>
    /\ UNCHANGED epsvWorks

\* Esc while a reply is waited for leaves the connection as it is; silence and a
\* lost connection close it, and so does 421.
NoReply ==
    /\ call.at \in {"reply", "final"}
    /\ \/ Return("Cancelled") /\ gaveUp' = (gaveUp \/ Owed)
          /\ UNCHANGED <<control, serverVars, taken>>
       \/ Silence /\ CloseControl /\ Return("ConnectionLost")
       \/ wire # << >> /\ Head(wire).code = "bye" /\ CloseControl /\ Return("ConnectionLost")
    /\ UNCHANGED <<epsvWorks, sent>>

\* What follows a command's good reply.  No password is sent after 230; the data
\* connection may fail to open.
AfterGood(code) ==
    \/ Verb = "Transfer" /\ Goto(IF call.active THEN "accept" ELSE "data")
    \/ /\ Verb # "Transfer" /\ Len(call.todo) > 1
       /\ LET rest == IF Verb = "User" /\ code = "ok" THEN Tail(Tail(call.todo)) ELSE Tail(call.todo)
          IN  call' = [call EXCEPT !.at = "send", !.todo = rest, !.active = Verb = "Port"]
    \/ Verb # "Transfer" /\ Len(call.todo) = 1 /\ Return("Ok")
    \/ Verb \in {"Epsv", "Pasv"} /\ \E st \in {"Failed", "Cancelled"} : Return(st)

\* What follows any other reply: EPSV is not tried again; a refused login ends
\* with QUIT.
AfterRefusal ==
    \/ Verb = "Epsv" /\ call' = [call EXCEPT !.at = "send", !.todo = <<"Pasv">> \o Tail(@)]
    \/ Verb \in {"User", "Pass"} /\ call' = [call EXCEPT !.at = "quit", !.todo = << >>, !.end = "Failed"]
    \/ Verb \notin {"User", "Pass"} /\ Return("Failed")

CommandAnswered ==
    /\ At("reply") /\ wire # << >> /\ Head(wire).code # "bye"
    /\ LET code == Head(wire).code IN
       \/ /\ Verb = "Hello" /\ code = "wait"
          /\ TakeReply(call.id) /\ UNCHANGED <<call, epsvWorks>>
       \/ /\ code \in Good(Verb)
          /\ TakeReply(call.id) /\ AfterGood(code) /\ UNCHANGED epsvWorks
       \/ /\ code \notin Good(Verb) /\ Verb # "Hello"
          /\ TakeReply(call.id) /\ AfterRefusal
          /\ epsvWorks' = (epsvWorks /\ Verb # "Epsv")
       \/ /\ code \notin Good(Verb) /\ Verb = "Hello" /\ code # "wait"
          /\ CloseControl /\ Return("Failed") /\ UNCHANGED epsvWorks
    /\ UNCHANGED sent

-----------------------------------------------------------------------------
(* Transfer, once the server has begun it.                                    *)

\* Active mode: the server's connection comes, or it is not waited for longer.
Accept ==
    /\ At("accept")
    /\ \/ Goto("data") /\ UNCHANGED gaveUp
       \/ /\ \E st \in {"Failed", "Cancelled"} : Return(st)
          /\ gaveUp' = (gaveUp \/ Owed)
    /\ UNCHANGED <<control, epsvWorks, serverVars, sent, taken>>

\* The data is through, or failed, or Esc was pressed.
Body ==
    /\ At("data")
    /\ \/ /\ \E st \in {"Ok", "Failed"} : call' = [call EXCEPT !.at = "final", !.end = st]
          /\ UNCHANGED <<control, serverVars, sent, taken, gaveUp>>
       \/ /\ control /\ Post("Abor")
          /\ Goto("abort")
          /\ UNCHANGED <<control, xfer, wire, up, performed, taken, gaveUp>>
       \/ SendFails /\ Return("Cancelled") /\ UNCHANGED sent
    /\ UNCHANGED epsvWorks

\* Mutant of FinalStatus: the transfer's last reply is not looked at.
FinalUnjudged(code) == call.end

FinalStatus(code) ==
    IF call.end = "Ok" /\ code \notin {"ok", "none"} THEN "Failed" ELSE call.end

TransferAnswered ==
    /\ At("final") /\ wire # << >> /\ Head(wire).code # "bye"
    /\ TakeReply(call.id)
    /\ Return(FinalStatus(Head(wire).code))
    /\ UNCHANGED <<epsvWorks, sent>>

\* Mutant of MoreAfter: one answer to ABOR is taken for all of it.
MoreAfterNone(code) == FALSE

MoreAfter(code) == code # "none"

\* DrainAfterAbort, Esc no longer looked at: the first answer, three seconds,
\* then perhaps a second one, one second.
DrainFirst ==
    /\ At("abort")
    /\ \/ /\ wire # << >> /\ Head(wire).code # "bye"
          /\ wire' = Tail(wire)
          /\ IF MoreAfter(Head(wire).code) THEN Goto("abort2") ELSE Return("Cancelled")
          /\ UNCHANGED <<control, asked, xfer, up, performed, taken, gaveUp>>
       \/ (Silence \/ (wire # << >> /\ Head(wire).code = "bye")) /\ CloseControl /\ Return("Cancelled")
    /\ UNCHANGED <<epsvWorks, sent>>

\* Silence is no lost connection here: an answer may come later.
DrainSecond ==
    /\ At("abort2")
    /\ \/ /\ wire # << >>
          /\ wire' = Tail(wire)
          /\ UNCHANGED <<control, asked, xfer, up, performed, taken, gaveUp>>
       \/ wire = << >> /\ ~ up /\ CloseControl
       \/ /\ wire = << >>
          /\ gaveUp' = (gaveUp \/ Owed)
          /\ UNCHANGED <<control, serverVars, taken>>
    /\ Return("Cancelled")
    /\ UNCHANGED <<epsvWorks, sent>>

-----------------------------------------------------------------------------
(* Disconnect and Connect.                                                    *)

AfterQuit == IF call.todo = << >> THEN Return(call.end) ELSE Goto("tcp")

Quit ==
    /\ At("quit")
    /\ \/ /\ control /\ Post("Quit")
          /\ Goto("bye")
          /\ UNCHANGED <<control, xfer, wire, up, performed, taken, gaveUp>>
       \/ SendFails /\ AfterQuit /\ UNCHANGED sent
    /\ UNCHANGED epsvWorks

\* Two seconds for any answer, then the connection is closed.
QuitAnswered ==
    /\ At("bye")
    /\ CloseControl /\ AfterQuit
    /\ UNCHANGED <<epsvWorks, sent>>

\* ConnectTcp; the server greets unasked.
ConnectTcp ==
    /\ At("tcp")
    /\ epsvWorks' = TRUE
    /\ \/ /\ control' = TRUE /\ up' = TRUE
          /\ sent' = sent + 1
          /\ asked' = <<[id |-> sent', verb |-> "Hello"]>>
          /\ call' = [call EXCEPT !.at = "reply", !.id = sent']
       \/ /\ \E st \in {"Failed", "Cancelled"} : Return(st)
          /\ UNCHANGED <<control, up, sent, asked>>
    /\ UNCHANGED <<xfer, wire, performed, taken, gaveUp>>

Client ==
    \/ Command \/ NoReply \/ CommandAnswered
    \/ Accept \/ Body \/ TransferAnswered \/ DrainFirst \/ DrainSecond
    \/ Quit \/ QuitAnswered \/ ConnectTcp

\* Not connected yet, or logged in for a while.
Init ==
    /\ control \in BOOLEAN /\ epsvWorks = TRUE
    /\ sent = 0
    /\ call = NewCall("connect", << >>, "idle")
    /\ asked = << >> /\ xfer = 0 /\ wire = << >> /\ up = control
    /\ performed = 0 /\ taken = NothingTaken /\ gaveUp = FALSE

Next == StartCall \/ StartConnect \/ Client \/ Server

\* The main thread goes on, and each of its waits has an end; of the server
\* nothing is assumed.
Spec == Init /\ [][Next]_vars /\ WF_vars(Client)

-----------------------------------------------------------------------------
(* What the panel relies on.                                                  *)

\* The reply a command gets is its own, unless since the connection was made a
\* reply was given up on that the server still owed: Esc while a reply was
\* waited for, an active data connection that did not come, or an answer to ABOR
\* that came too late (FtpClient.cpp:181-219, 406-475).
RepliesInStep == gaveUp \/ taken.of = taken.as

\* A command or transfer that is answered Ok was carried out by the server, with
\* the same proviso.
OkMeansDone ==
    call.kind = "command" /\ At("idle") /\ call.st = "Ok" => gaveUp \/ call.id = performed

\* Every call ends, also when the server says nothing at any point, goes away or
\* sends too little (FTP-009, FtpClient.cpp:35-59, 198-202, 411-429).
CallEnds == ~ At("idle") ~> At("idle")

\* FtpClient.h:100-102: the answers to ABOR are read "so the next command's reply
\* isn't one behind".
NeverOneBehind == taken.of = taken.as
=============================================================================
