----------------------------- MODULE IosSession ----------------------------
(***************************************************************************)
(* One terminal session with a Cisco IOS device: Dial, escalate and the    *)
(* read loops of pkg/cisco/client.go, with the commands of GetHealth       *)
(* (health.go) or GetOSPFState (ospf.go), as the handlers Health and OSPF  *)
(* run them.                                                               *)
(*                                                                         *)
(* The device answers a command with text and a prompt, on one stream.     *)
(* Nothing in the stream says which command a text belongs to: the client  *)
(* reads it in chunks of any size until a prompt shows in what it has read.*)
(* Its context is looked at between reads; a read that waits is ended only *)
(* by the device.                                                          *)
(*                                                                         *)
(* Text is abstracted to tokens: the name of a command for a piece of its  *)
(* output, and what the code looks for.  A line of the banner may end like *)
(* a prompt of another device or of this one, or in a "#" that no name     *)
(* comes before, as a ruler does.                                          *)
(***************************************************************************)
EXTENDS Naturals, Sequences

CONSTANTS
    Script,       \* commands whose errors stay in their blocks
    Banner,       \* what the device says before its first prompt
    MaxBody,      \* bound: pieces of output of one command
    Cap,          \* readBufferCap
    Faults        \* of "silence", "close", "expire"

Setup == <<"login", "enable", "secret", "length", "width">>
Steps == Setup \o Script

Commands == {Script[n] : n \in DOMAIN Script}

Prompts     == {"device>", "device#"}
BannerLines == {"text", "####", "other>", "other#", "device>", "device#"}
Specials    == {"Password:", "denied"} \union BannerLines

Tokens == {Steps[n] : n \in DOMAIN Steps} \union Specials

\* A token names the output of one command.
ASSUME SessionAssumption ==
    /\ Script \in Seq(STRING) /\ Banner \in Seq(BannerLines)
    /\ \A m, n \in DOMAIN Steps : Steps[m] = Steps[n] => m = n
    /\ Commands \intersect Specials = {}
    /\ MaxBody \in Nat /\ Cap \in Nat
    /\ Faults \subseteq {"silence", "close", "expire"}

VARIABLES
    phase,     \* the client: dial, write, check, read, answered or failed
    step,      \* the command it is at, as an index of Steps
    buf,       \* what it has read of the reply
    host,      \* the hostname it has learned
    got,       \* tokens that each block was parsed from, or its error
    late,      \* whether its context has ended
    spilt,     \* not in the code: the command whose reply exceeded Cap, or 0
    wire,      \* output on its way
    inbox,     \* commands on theirs
    mode,      \* the device: exec, password or privileged
    secret,    \* what its enable password is to the row's: right, wrong or unset,
               \* or unused where the row has none
    open       \* whether the connection is

client == <<phase, step, buf, host, got, spilt>>
device == <<wire, inbox, mode, secret, open>>
vars   == <<client, late, device>>

Init ==
    /\ phase = "dial" /\ step = 1 /\ buf = <<>> /\ host = "" /\ late = FALSE /\ spilt = 0
    /\ got = [n \in DOMAIN Steps |-> {}]
    /\ wire = <<>> /\ inbox = <<>> /\ open = TRUE
    /\ mode \in {"exec", "privileged"} /\ secret \in {"right", "wrong", "unset", "unused"}

---------------------------------------------------------------------------
(* The client *)

EnableGiven == secret # "unused"

Ended == phase \in {"answered", "failed"}

Has(b, tokens) == \E i \in DOMAIN b : b[i] \in tokens

\* initialPromptRE, which also finds what looks like a prompt at the end of any
\* line, and the one built for a known hostname.
Looked(h) ==
    CASE h = "device" -> Prompts
      [] h = "other"  -> {"other>", "other#"}
      [] h = ""       -> Prompts \union {"other>", "other#"}

\* Mutant: escalate waits for a prompt after "enable", as after a command.
MatchesPrompt(b) == Has(b, Looked(host))

Matches(b) == Has(b, IF Steps[step] = "enable" THEN {"Password:"} ELSE Looked(host))

\* The name before the first prompt.
Hostname(b) ==
    LET first == CHOOSE i \in DOMAIN b :
           b[i] \in Looked("") /\ ~Has(SubSeq(b, 1, i - 1), Looked(""))
    IN IF b[first] \in Prompts THEN "device" ELSE "other"

\* Whatever the line is.
Hashes == {"device#", "other#", "####"}

EndsPrivileged(b) == b[Len(b)] \in Hashes

\* Mutant: the buffer is kept for the next command.
GoKeeping(n) ==
    /\ step' = n /\ UNCHANGED buf
    /\ phase' = IF n \in DOMAIN Steps THEN "write" ELSE "answered"

Go(n) ==
    /\ step' = n /\ buf' = <<>>
    /\ phase' = IF n \in DOMAIN Steps THEN "write" ELSE "answered"

\* An error: it ends Dial, but for the width it does not matter, and in the
\* commands it stays in its block.
Fail ==
    /\ IF Steps[step] \in {"login", "enable", "secret", "length"}
       THEN phase' = "failed" /\ buf' = <<>> /\ UNCHANGED <<step, got>>
       ELSE /\ got' = [got EXCEPT ![step] = {"error"}]
            /\ Go(step + 1)
    /\ UNCHANGED host

\* Mutant: escalate takes any prompt for success.
AcceptAny(b) ==
    /\ host' = IF Steps[step] = "login" THEN Hostname(b) ELSE host
    /\ got' = [got EXCEPT ![step] = {b[i] : i \in DOMAIN b}]
    /\ Go(IF Steps[step] = "login" /\ (EndsPrivileged(b) \/ ~EnableGiven) THEN 4 ELSE step + 1)

\* A prompt shows: what was read is the reply.  The first tells the hostname, and
\* whether to ask for privilege; the one after the password must be privileged.
Accept(b) ==
    IF Steps[step] = "secret" /\ (Has(b, {"denied"}) \/ ~EndsPrivileged(b)) THEN Fail
    ELSE /\ host' = IF Steps[step] = "login" THEN Hostname(b) ELSE host
         /\ got' = [got EXCEPT ![step] = {b[i] : i \in DOMAIN b}]
         /\ Go(IF Steps[step] = "login" /\ (EndsPrivileged(b) \/ ~EnableGiven) THEN 4
               ELSE step + 1)

\* TCP, SSH and the shell.  The handshake has neither timeout nor context.
Dial ==
    /\ phase = "dial"
    /\ \/ /\ open
          /\ wire' = Banner \o <<IF mode = "privileged" THEN "device#" ELSE "device>">>
          /\ phase' = "check"
       \/ ~open /\ phase' = "failed" /\ UNCHANGED wire
    /\ UNCHANGED <<step, buf, host, got, spilt, late, inbox, mode, secret, open>>

\* The command, or the password, is written whatever the context says.
Write ==
    /\ phase = "write"
    /\ IF open
       THEN /\ inbox' = Append(inbox, Steps[step])
            /\ phase' = "check"
            /\ UNCHANGED <<step, buf, host, got>>
       ELSE Fail /\ UNCHANGED inbox
    /\ UNCHANGED <<spilt, late, wire, mode, secret, open>>

\* Mutant: every command has a context of its own.
CheckAnew ==
    /\ phase = "check"
    /\ IF late THEN Fail ELSE phase' = "read" /\ UNCHANGED <<step, buf, host, got>>
    /\ late' = FALSE
    /\ UNCHANGED <<spilt, device>>

Check ==
    /\ phase = "check"
    /\ IF late THEN Fail ELSE phase' = "read" /\ UNCHANGED <<step, buf, host, got>>
    /\ UNCHANGED <<spilt, late, device>>

\* A chunk that exceeds the buffer is dropped, and the rest of the reply stays.
\* readUntilLiteral, which waits for "Password:", has no such bound.
ReadChunk == \E n \in 1..Len(wire) : LET b == buf \o SubSeq(wire, 1, n) IN
    /\ phase = "read"
    /\ wire' = SubSeq(wire, n + 1, Len(wire))
    /\ IF Len(b) > Cap /\ Steps[step] # "enable"
       THEN Fail /\ spilt' = (IF spilt = 0 THEN step ELSE spilt)
       ELSE /\ IF Matches(b) THEN Accept(b)
               ELSE phase' = "check" /\ buf' = b /\ UNCHANGED <<step, host, got>>
            /\ UNCHANGED spilt
    /\ UNCHANGED <<late, inbox, mode, secret, open>>

\* Mutant: no data is no error.
ReadPastEnd ==
    /\ phase = "read" /\ wire = <<>> /\ ~open
    /\ phase' = "check"
    /\ UNCHANGED <<step, buf, host, got, spilt, late, device>>

ReadEnd ==
    /\ phase = "read" /\ wire = <<>> /\ ~open
    /\ Fail
    /\ UNCHANGED <<spilt, late, device>>

\* 30 seconds are over, or whoever asked has left.
Expire ==
    /\ "expire" \in Faults /\ ~Ended /\ ~late
    /\ late' = TRUE
    /\ UNCHANGED <<client, device>>

---------------------------------------------------------------------------
(* The device *)

Says(text, m) == wire' = wire \o text /\ mode' = m

Denied == Says(<<"denied", "device>">>, "exec")

\* Whatever comes after "Password:" is taken for one.
TakePassword ==
    /\ mode = "password"
    /\ \/ secret = "right" /\ Says(<<"device#">>, "privileged")
       \/ secret = "wrong" /\ (Denied \/ Says(<<"Password:">>, mode))

AskPassword ==
    /\ mode = "exec" /\ Head(inbox) = "enable"
    /\ IF secret = "unset" THEN Denied ELSE Says(<<"Password:">>, "password")

Show ==
    /\ mode # "password" /\ ~(mode = "exec" /\ Head(inbox) = "enable")
    /\ \E k \in 0..MaxBody :
          Says([i \in 1..k |-> Head(inbox)]
               \o <<IF mode = "privileged" THEN "device#" ELSE "device>">>, mode)

Reply ==
    /\ open /\ inbox # <<>>
    /\ inbox' = Tail(inbox)
    /\ TakePassword \/ AskPassword \/ Show
    /\ UNCHANGED <<client, late, secret, open>>

\* The device waits for a password only so long.
GiveUp ==
    /\ "close" \in Faults /\ open /\ mode = "password"
    /\ Denied
    /\ UNCHANGED <<client, late, inbox, secret, open>>

\* The login is refused, the line has been idle too long, the device reloads or
\* TCP finds it dead: what was under way is lost from some point on.
Close ==
    /\ "close" \in Faults /\ open /\ ~Ended
    /\ open' = FALSE /\ inbox' = <<>>
    /\ \E n \in 0..Len(wire) : wire' = SubSeq(wire, 1, n)
    /\ UNCHANGED <<client, late, mode, secret>>

ClientStep == Dial \/ Write \/ Check \/ ReadChunk \/ ReadEnd

Next == ClientStep \/ Expire \/ Reply \/ GiveUp \/ Close

Spec == Init /\ [][Next]_vars

\* The client runs, and an idle line is closed; the device answers unless it may
\* fall silent.
FairSpec ==
    /\ Spec /\ WF_vars(ClientStep) /\ WF_vars(Close)
    /\ "silence" \in Faults \/ WF_vars(Reply)
---------------------------------------------------------------------------
(* Properties *)

(***************************************************************************)
(* Every variable is in its set, and a command starts with an empty buffer.*)
(***************************************************************************)
TypeOK ==
    /\ phase \in {"dial", "write", "check", "read", "answered", "failed"}
    /\ step \in 1..(Len(Steps) + 1) /\ (phase = "answered" <=> step = Len(Steps) + 1)
    /\ buf \in Seq(Tokens) /\ (buf # <<>> => phase \in {"check", "read"})
    /\ Len(buf) <= Cap \/ (step <= Len(Steps) /\ Steps[step] = "enable")
    /\ host \in {"", "device", "other"}
    /\ got \in [DOMAIN Steps -> SUBSET (Tokens \union {"error"})]
    /\ late \in BOOLEAN /\ spilt \in 0..Len(Steps)
    /\ wire \in Seq(Tokens) /\ inbox \in Seq({Steps[n] : n \in DOMAIN Steps})
    /\ mode \in {"exec", "password", "privileged"}
    /\ secret \in {"right", "wrong", "unset", "unused"}
    /\ open \in BOOLEAN

Answered(n) == got[n] \notin {{}, {"error"}}

(***************************************************************************)
(* "Each step's error stays local to that block" (GetHealth): whatever     *)
(* times out or breaks off, a block without an error was parsed from all   *)
(* of the output of its own command and from nothing else, until a reply   *)
(* has exceeded the buffer: the commands after that get the rest of it.    *)
(***************************************************************************)
OwnReply == \A n \in DOMAIN Steps :
    /\ Steps[n] \in Commands /\ Answered(n)
    /\ spilt = 0 \/ n < spilt
    => /\ got[n] \subseteq {Steps[n]} \union Prompts
       /\ ~Has(wire, {Steps[n]}) /\ ~Has(inbox, {Steps[n]})

(***************************************************************************)
(* "parks at the privileged prompt" (Dial): with an enable password in the *)
(* row, commands come to a device that is privileged, or not at all.  That *)
(* takes a banner which does not end a read with "#" once one of its lines *)
(* has looked like a prompt: such a line is taken for privilege.           *)
(***************************************************************************)
Parked == EnableGiven /\ Has(inbox, Commands) => mode = "privileged"

(***************************************************************************)
(* Client and device never wait for each other ("A blocked Read() outlives *)
(* ctx cancellation", readUntilPrompt): where the password is the right    *)
(* one or none is needed, a client that waits for text on an open line has *)
(* some on its way, or the device has its command.                         *)
(***************************************************************************)
Owed ==
    secret \in {"right", "unused"} /\ open /\ spilt = 0 /\ phase = "read" /\ wire = <<>>
    => inbox # <<>>

(***************************************************************************)
(* A session ends, even where the device falls silent in the middle of the *)
(* handshake, of the password dialogue or of a reply, provided that idle   *)
(* lines are closed.                                                       *)
(***************************************************************************)
SessionEnds == <>Ended

(***************************************************************************)
(* "banner text containing '#' (not unheard of) doesn't false-positive"    *)
(* (buildPromptRE): a device that answers everything is served.            *)
(***************************************************************************)
Served == secret \in {"right", "unused"} => <>(phase = "answered")
===========================================================================
