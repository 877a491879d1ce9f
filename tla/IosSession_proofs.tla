-------------------------- MODULE IosSession_proofs --------------------------
(***************************************************************************)
(* Proofs about IosSession, for every list of commands, length of replies, *)
(* size of the buffer and set of faults: types, the privilege of the       *)
(* device that commands come to, and, where the banner has nothing that    *)
(* looks like a prompt, that blocks hold the output of their own command,  *)
(* that client and device never wait for each other, and that a session    *)
(* in which nothing breaks has no error.                                   *)
(***************************************************************************)
EXTENDS IosSession, SequenceTheorems, TLAPS

---------------------------------------------------------------------------
(* Steps and tokens *)

LEMMA StepsSplit ==
  /\ Len(Script) \in Nat /\ DOMAIN Script = 1..Len(Script) /\ Len(Steps) = 5 + Len(Script)
  /\ DOMAIN Steps = 1..Len(Steps)
  /\ \A i \in 1..5 : Steps[i] = Setup[i]
  /\ \A k \in DOMAIN Script : Steps[k + 5] = Script[k]
<1> DEFINE S == STRING \union {"login", "enable", "secret", "length", "width"}
<1>1. Script \in Seq(S)
  BY SessionAssumption, SeqMonotonic
<1>2. Setup \in Seq(S) /\ Len(Setup) = 5
  <2> HIDE DEF S
  <2>1. "login" \in S /\ "enable" \in S /\ "secret" \in S /\ "length" \in S /\ "width" \in S
    BY DEF S
  <2>2. QED
    BY <2>1 DEF Setup
<1> HIDE DEF S
<1>3. Len(Script) \in Nat /\ DOMAIN Script = 1..Len(Script)
  BY <1>1
<1>4. /\ Steps \in Seq(S) /\ Len(Steps) = 5 + Len(Script)
      /\ \A i \in 1..(5 + Len(Script)) : Steps[i] = IF i <= 5 THEN Setup[i] ELSE Script[i - 5]
  <2> DEFINE s == Setup
  <2>1. s \in Seq(S) /\ Len(s) = 5 /\ Steps = s \o Script
    BY <1>2 DEF Steps
  <2> HIDE DEF s
  <2>2. /\ Steps \in Seq(S) /\ Len(Steps) = Len(s) + Len(Script)
        /\ \A i \in 1..(Len(s) + Len(Script)) :
              Steps[i] = IF i <= Len(s) THEN s[i] ELSE Script[i - Len(s)]
    BY <1>1, <2>1, ConcatProperties
  <2>3. QED
    BY <2>1, <2>2 DEF s
<1>5. DOMAIN Steps = 1..Len(Steps)
  BY <1>4
<1>6. QED
  BY <1>3, <1>4, <1>5

LEMMA StepsFacts ==
  /\ Len(Steps) \in Nat /\ Len(Steps) >= 5 /\ DOMAIN Steps = 1..Len(Steps)
  /\ Steps[1] = "login" /\ Steps[2] = "enable" /\ Steps[3] = "secret"
  /\ Steps[4] = "length" /\ Steps[5] = "width"
  /\ \A m, n \in DOMAIN Steps : Steps[m] = Steps[n] => m = n
  /\ \A n \in DOMAIN Steps : Steps[n] \in Tokens \ Specials
  /\ Specials \subseteq Tokens
<1>4. Len(Steps) \in Nat /\ Len(Steps) >= 5 /\ DOMAIN Steps = 1..Len(Steps)
  BY StepsSplit
<1>5. /\ Steps[1] = "login" /\ Steps[2] = "enable" /\ Steps[3] = "secret"
      /\ Steps[4] = "length" /\ Steps[5] = "width"
  BY StepsSplit DEF Setup
<1>6. /\ \A n \in DOMAIN Steps : Steps[n] \in Tokens \ Specials
      /\ Specials \subseteq Tokens
  <2>1. /\ \A n \in DOMAIN Steps : Steps[n] \in Tokens
        /\ Specials \subseteq Tokens
    BY DEF Tokens, Specials, BannerLines
  <2>2. ASSUME NEW n \in DOMAIN Steps PROVE Steps[n] \notin Specials
    <3>1. CASE n <= 5
      <4>1. n = 1 \/ n = 2 \/ n = 3 \/ n = 4 \/ n = 5
        BY <1>4, <3>1
      <4>2. QED
        BY <1>5, <4>1 DEF Specials, BannerLines
    <3>2. CASE n > 5
      <4>1. n - 5 \in DOMAIN Script /\ (n - 5) + 5 = n
        BY <1>4, <3>2, StepsSplit
      <4>2. Steps[n] \in Commands
        BY <4>1, StepsSplit DEF Commands
      <4>3. QED
        BY <4>2, SessionAssumption DEF Specials, BannerLines
    <3>3. QED
      BY <1>4, <3>1, <3>2
  <2>3. QED
    BY <2>1, <2>2
<1>7. QED
  BY <1>4, <1>5, <1>6, SessionAssumption

\* The commands come after the five steps of Dial.
LEMMA CommandSteps ==
  ASSUME NEW n \in DOMAIN Steps, Steps[n] \in Commands
  PROVE  n > 5
<1>3. PICK k \in DOMAIN Script : Steps[n] = Script[k]
  BY DEF Commands
<1>4. k \in 1..Len(Script) /\ Len(Script) \in Nat
  BY StepsSplit
<1>5. Steps[k + 5] = Script[k] /\ k + 5 \in DOMAIN Steps /\ k + 5 > 5
  BY <1>4, StepsSplit
<1>6. n = k + 5
  BY <1>3, <1>5, StepsFacts
<1>7. QED
  BY <1>4, <1>6

\* Where what the client has read comes from.
FromRead(n, b) == \A i \in DOMAIN b :
    \/ i \in DOMAIN buf /\ b[i] = buf[i]
    \/ \E j \in 1..n : b[i] = wire[j] /\ i = Len(buf) + j

LEMMA ReadItems ==
  ASSUME buf \in Seq(Tokens), wire \in Seq(Tokens), NEW n \in 1..Len(wire), NEW b,
         b = buf \o SubSeq(wire, 1, n)
  PROVE  FromRead(n, b)
<1>1. Len(wire) \in Nat /\ Len(buf) \in Nat /\ n \in Nat /\ n >= 1 /\ n <= Len(wire)
  OBVIOUS
<1> DEFINE x == SubSeq(wire, 1, n)
<1>2. x \in Seq(Tokens) /\ Len(x) = n /\ \A i \in 1..n : x[i] = wire[i]
  BY <1>1, SubSeqProperties
<1> HIDE DEF x
<1>3. /\ b \in Seq(Tokens) /\ Len(b) = Len(buf) + n
      /\ \A i \in 1..(Len(buf) + n) : b[i] = IF i <= Len(buf) THEN buf[i] ELSE x[i - Len(buf)]
  BY <1>1, <1>2, ConcatProperties DEF x
<1>4. DOMAIN b = 1..(Len(buf) + n) /\ DOMAIN buf = 1..Len(buf)
  BY <1>1, <1>3
<1> SUFFICES ASSUME NEW i \in DOMAIN b, ~(i \in DOMAIN buf /\ b[i] = buf[i])
             PROVE  \E j \in 1..n : b[i] = wire[j] /\ i = Len(buf) + j
  BY DEF FromRead
<1>5. i - Len(buf) \in 1..n /\ b[i] = x[i - Len(buf)]
  BY <1>1, <1>3, <1>4
<1>6. QED
  BY <1>1, <1>2, <1>5

\* How much it has read then.
LEMMA ReadEnds ==
  ASSUME buf \in Seq(Tokens), wire \in Seq(Tokens), NEW n \in 1..Len(wire), NEW b,
         b = buf \o SubSeq(wire, 1, n)
  PROVE  /\ b \in Seq(Tokens) /\ b # <<>> /\ Len(b) = Len(buf) + n /\ Len(b) \in Nat
         /\ Len(b) \in DOMAIN b /\ b[Len(b)] = wire[n]
<1>1. Len(wire) \in Nat /\ Len(buf) \in Nat /\ n \in Nat /\ n >= 1 /\ n <= Len(wire)
  OBVIOUS
<1> DEFINE x == SubSeq(wire, 1, n)
<1>2. x \in Seq(Tokens) /\ Len(x) = n /\ \A i \in 1..n : x[i] = wire[i]
  BY <1>1, SubSeqProperties
<1> HIDE DEF x
<1>3. /\ b \in Seq(Tokens) /\ Len(b) = Len(buf) + n
      /\ \A i \in 1..(Len(buf) + n) : b[i] = IF i <= Len(buf) THEN buf[i] ELSE x[i - Len(buf)]
  BY <1>1, <1>2, ConcatProperties DEF x
<1>4. b[Len(b)] = wire[n]
  <2>1. Len(buf) + n \in 1..(Len(buf) + n) /\ ~(Len(buf) + n <= Len(buf))
        /\ (Len(buf) + n) - Len(buf) = n /\ n \in 1..n
    BY <1>1
  <2>2. b[Len(buf) + n] = x[n]
    BY <1>3, <2>1
  <2>3. QED
    BY <1>2, <1>3, <2>1, <2>2
<1>5. Len(b) \in Nat /\ Len(b) > 0
  BY <1>1, <1>3
<1>6. Len(b) \in DOMAIN b
  BY <1>3, <1>5
<1>7. b # <<>>
  BY <1>5, EmptySeq
<1>8. QED
  BY <1>3, <1>4, <1>5, <1>6, <1>7

\* What is left on the wire.
LEMMA ReadRest ==
  ASSUME wire \in Seq(Tokens), NEW n \in 1..Len(wire), NEW y, y = SubSeq(wire, n + 1, Len(wire))
  PROVE  /\ y \in Seq(Tokens) /\ Len(y) = Len(wire) - n
         /\ \A i \in DOMAIN y : n + i \in DOMAIN wire /\ y[i] = wire[n + i]
         /\ n = Len(wire) => y = <<>>
<1>1. Len(wire) \in Nat /\ n \in Nat /\ n >= 1 /\ n <= Len(wire)
  OBVIOUS
<1>2. /\ y \in Seq(Tokens) /\ Len(y) = Len(wire) - n
      /\ \A i \in 1..(Len(wire) - n) : y[i] = wire[n + i]
  BY <1>1, SubSeqProperties
<1>3. DOMAIN wire = 1..Len(wire) /\ DOMAIN y = 1..(Len(wire) - n)
  BY <1>1, <1>2
<1>4. \A i \in DOMAIN y : n + i \in DOMAIN wire /\ y[i] = wire[n + i]
  <2> SUFFICES ASSUME NEW i \in DOMAIN y
               PROVE  n + i \in DOMAIN wire /\ y[i] = wire[n + i]
    OBVIOUS
  <2>1. i \in 1..(Len(wire) - n)
    BY <1>3
  <2>2. n + i \in 1..Len(wire)
    BY <1>1, <2>1
  <2>3. QED
    BY <1>2, <1>3, <2>1, <2>2
<1>5. n = Len(wire) => y = <<>>
  BY <1>1, <1>2, EmptySeq
<1>6. QED
  BY <1>2, <1>4, <1>5

\* What the device says comes after what is on the wire.
LEMMA SaysAfter ==
  ASSUME wire \in Seq(Tokens), NEW text \in Seq(Tokens), NEW m, Says(text, m)
  PROVE  /\ wire' \in Seq(Tokens) /\ Len(wire') = Len(wire) + Len(text) /\ mode' = m
         /\ \A i \in DOMAIN wire' :
              \/ i \in DOMAIN wire /\ wire'[i] = wire[i]
              \/ \E j \in DOMAIN text : wire'[i] = text[j] /\ i = Len(wire) + j
         /\ wire = <<>> => wire' = text
<1>1. wire' = wire \o text /\ mode' = m
  BY DEF Says
<1>2. Len(wire) \in Nat /\ Len(text) \in Nat /\ DOMAIN wire = 1..Len(wire)
      /\ DOMAIN text = 1..Len(text)
  OBVIOUS
<1>3. /\ wire' \in Seq(Tokens) /\ Len(wire') = Len(wire) + Len(text)
      /\ \A i \in 1..(Len(wire) + Len(text)) :
            wire'[i] = IF i <= Len(wire) THEN wire[i] ELSE text[i - Len(wire)]
  BY <1>1, ConcatProperties
<1>4. DOMAIN wire' = 1..(Len(wire) + Len(text))
  BY <1>2, <1>3
<1>5. \A i \in DOMAIN wire' :
         \/ i \in DOMAIN wire /\ wire'[i] = wire[i]
         \/ \E j \in DOMAIN text : wire'[i] = text[j] /\ i = Len(wire) + j
  <2> SUFFICES ASSUME NEW i \in DOMAIN wire', ~(i \in DOMAIN wire /\ wire'[i] = wire[i])
               PROVE  \E j \in DOMAIN text : wire'[i] = text[j] /\ i = Len(wire) + j
    OBVIOUS
  <2>1. i - Len(wire) \in DOMAIN text /\ wire'[i] = text[i - Len(wire)]
    BY <1>2, <1>3, <1>4
  <2>2. QED
    BY <1>2, <1>4, <2>1
<1>6. wire = <<>> => wire' = text
  BY <1>1
<1>7. QED
  BY <1>1, <1>3, <1>5, <1>6

---------------------------------------------------------------------------
(* The client's steps *)

LEMMA StepIsNat ==
  ASSUME TypeOK
  PROVE  step \in Nat /\ DOMAIN Steps \subseteq Nat
<1> DEFINE k == Len(Steps)
<1>1. step \in 1..(k + 1)
  BY DEF TypeOK
<1>2. k \in Nat /\ DOMAIN Steps = 1..k
  BY StepsFacts
<1> HIDE DEF k
<1>3. QED
  BY <1>1, <1>2

LEMMA AtStep ==
  ASSUME TypeOK, phase # "answered"
  PROVE  step \in DOMAIN Steps /\ step \in Nat /\ step >= 1
<1>1. step \in 1..(Len(Steps) + 1) /\ step # Len(Steps) + 1
  BY DEF TypeOK
<1>2. QED
  BY <1>1, StepsFacts

LEMMA AfterFail ==
  ASSUME TypeOK, phase # "answered", Fail
  PROVE  /\ host' = host /\ buf' = <<>>
         /\ \/ /\ step <= 4 /\ phase' = "failed" /\ step' = step /\ got' = got
            \/ /\ step >= 5 /\ step' = step + 1 /\ phase' \in {"write", "answered"}
               /\ got' = [got EXCEPT ![step] = {"error"}]
         /\ step' \in 1..(Len(Steps) + 1) /\ (phase' = "answered" <=> step' = Len(Steps) + 1)
<1>1. step \in DOMAIN Steps /\ step \in Nat /\ step >= 1 /\ step <= Len(Steps)
  BY AtStep, StepsFacts
<1>2. step <= 4 <=> Steps[step] \in {"login", "enable", "secret", "length"}
  <2>1. 1 \in DOMAIN Steps /\ 2 \in DOMAIN Steps /\ 3 \in DOMAIN Steps /\ 4 \in DOMAIN Steps
    BY StepsFacts
  <2>2. step <= 4 => step = 1 \/ step = 2 \/ step = 3 \/ step = 4
    BY <1>1
  <2>3. QED
    BY <1>1, <2>1, <2>2, StepsFacts
<1>3. CASE step <= 4
  <2>1. phase' = "failed" /\ buf' = <<>> /\ step' = step /\ got' = got /\ host' = host
    BY <1>2, <1>3 DEF Fail
  <2>2. QED
    BY <1>1, <1>3, <2>1, StepsFacts
<1>4. CASE step >= 5
  <2>1. got' = [got EXCEPT ![step] = {"error"}] /\ Go(step + 1) /\ host' = host
    BY <1>1, <1>2, <1>4 DEF Fail
  <2>2. /\ step' = step + 1 /\ buf' = <<>>
        /\ phase' = IF step + 1 \in DOMAIN Steps THEN "write" ELSE "answered"
    BY <2>1 DEF Go
  <2>3. step + 1 \in DOMAIN Steps <=> step + 1 # Len(Steps) + 1
    BY <1>1, StepsFacts
  <2>4. QED
    BY <1>1, <1>4, <2>1, <2>2, <2>3, StepsFacts
<1>5. QED
  BY <1>1, <1>3, <1>4

\* A reply that is taken for one.
LEMMA AfterAccept ==
  ASSUME TypeOK, phase # "answered", NEW b, Accept(b)
  PROVE  \/ step = 3 /\ Fail
         \/ /\ buf' = <<>> /\ phase' \in {"write", "answered"}
            /\ got' = [got EXCEPT ![step] = {b[i] : i \in DOMAIN b}]
            /\ host' = IF step = 1 THEN Hostname(b) ELSE host
            /\ \/ step' = step + 1
               \/ step' = 4 /\ step = 1 /\ (EndsPrivileged(b) \/ ~EnableGiven)
            /\ step = 1 /\ step' = step + 1 => EnableGiven /\ ~EndsPrivileged(b)
            /\ step = 3 => EndsPrivileged(b)
            /\ step' \in 1..(Len(Steps) + 1) /\ (phase' = "answered" <=> step' = Len(Steps) + 1)
<1>1. step \in DOMAIN Steps /\ step \in Nat /\ step >= 1 /\ step <= Len(Steps)
  BY AtStep, StepsFacts
<1>2. (Steps[step] = "login" <=> step = 1) /\ (Steps[step] = "secret" <=> step = 3)
  <2>1. 1 \in DOMAIN Steps /\ 3 \in DOMAIN Steps
    BY StepsFacts
  <2>2. QED
    BY <1>1, <2>1, StepsFacts
<1>3. CASE step = 3 /\ (Has(b, {"denied"}) \/ ~EndsPrivileged(b))
  BY <1>2, <1>3 DEF Accept
<1>4. CASE ~(step = 3 /\ (Has(b, {"denied"}) \/ ~EndsPrivileged(b)))
  <2> DEFINE n == IF step = 1 /\ (EndsPrivileged(b) \/ ~EnableGiven) THEN 4 ELSE step + 1
  <2>1. /\ host' = IF step = 1 THEN Hostname(b) ELSE host
        /\ got' = [got EXCEPT ![step] = {b[i] : i \in DOMAIN b}]
        /\ Go(n)
    BY <1>2, <1>4 DEF Accept
  <2>2. n \in 1..(Len(Steps) + 1) /\ (n \in DOMAIN Steps <=> n # Len(Steps) + 1)
    BY <1>1, StepsFacts
  <2>3. step' = n /\ buf' = <<>> /\ phase' = IF n \in DOMAIN Steps THEN "write" ELSE "answered"
    BY <2>1 DEF Go
  <2>4. /\ n = step + 1 \/ (n = 4 /\ step = 1 /\ (EndsPrivileged(b) \/ ~EnableGiven))
        /\ step = 1 /\ n = step + 1 => EnableGiven /\ ~EndsPrivileged(b)
    OBVIOUS
  <2> HIDE DEF n
  <2>5. QED
    BY <1>4, <2>1, <2>2, <2>3, <2>4
<1>5. QED
  BY <1>3, <1>4

---------------------------------------------------------------------------
(* The device's steps *)

\* What a device says to a command, and the mode it is in after it.
Spoken(c, text, m) ==
    /\ text \in Seq(Tokens) /\ m \in {"exec", "password", "privileged"}
    /\ \A i \in DOMAIN text :
          /\ text[i] \in {c, "denied", "device>", "device#", "Password:"}
          /\ text[i] = "device#" => m = "privileged" /\ i = Len(text)
          /\ text[i] = "Password:" => m = "password"
    /\ mode = "privileged" => m = "privileged"
    /\ m = "privileged" /\ mode # "privileged" => mode = "password" /\ text = <<"device#">>
    /\ m = "password" => mode = "password" \/ (mode = "exec" /\ c = "enable")
    /\ mode = "privileged" \/ (mode # "password" /\ c # "enable") =>
          m = mode /\ \A i \in DOMAIN text :
             text[i] = c \/ (text[i] \in Prompts /\ i = Len(text))

LEMMA Commanded ==
  ASSUME TypeOK, inbox # <<>>
  PROVE  /\ Head(inbox) = inbox[1] /\ 1 \in DOMAIN inbox
         /\ Head(inbox) \in Tokens \ Specials
         /\ Tail(inbox) \in Seq({Steps[n] : n \in DOMAIN Steps})
         /\ \A i \in DOMAIN Tail(inbox) : i + 1 \in DOMAIN inbox /\ Tail(inbox)[i] = inbox[i + 1]
         /\ Len(inbox) = 1 => Tail(inbox) = <<>>
<1> DEFINE S == {Steps[n] : n \in DOMAIN Steps}
<1>1. inbox \in Seq(S)
  BY DEF TypeOK
<1>2. \A x \in S : x \in Tokens \ Specials
  BY StepsFacts
<1> HIDE DEF S
<1>3. /\ Head(inbox) \in S /\ Tail(inbox) \in Seq(S) /\ Len(Tail(inbox)) = Len(inbox) - 1
      /\ Head(inbox) = inbox[1] /\ \A i \in 1..Len(Tail(inbox)) : Tail(inbox)[i] = inbox[i + 1]
  BY <1>1, HeadTailProperties
<1>4. Len(inbox) \in Nat /\ Len(inbox) >= 1 /\ DOMAIN inbox = 1..Len(inbox)
      /\ DOMAIN Tail(inbox) = 1..(Len(inbox) - 1)
  BY <1>1, <1>3
<1>5. QED
  BY <1>2, <1>3, <1>4 DEF S

LEMMA AfterReply ==
  ASSUME TypeOK, Reply
  PROVE  /\ inbox # <<>> /\ inbox' = Tail(inbox) /\ open
         /\ \E text, m : Says(text, m) /\ Spoken(Head(inbox), text, m)
         /\ UNCHANGED <<client, late, secret, open>>
<1>1. inbox # <<>> /\ inbox' = Tail(inbox) /\ open /\ UNCHANGED <<client, late, secret, open>>
  BY DEF Reply
<1> DEFINE c == Head(inbox)
<1>2. c \in Tokens \ Specials /\ Specials \subseteq Tokens
  BY <1>1, Commanded, StepsFacts
<1> HIDE DEF c
<1>3. mode \in {"exec", "password", "privileged"}
  BY DEF TypeOK
<1>4. c \notin Specials
  BY <1>2
<1>5. ASSUME mode \in {"exec", "password"} PROVE Spoken(c, <<"denied", "device>">>, "exec")
                             \/ (mode = "exec" /\ c # "enable")
  BY <1>2, <1>5 DEF Spoken, Specials, BannerLines
<1>6. ASSUME mode = "password" PROVE Spoken(c, <<"device#">>, "privileged")
  BY <1>2, <1>6 DEF Spoken, Specials, BannerLines
<1>7. ASSUME mode = "password" \/ (mode = "exec" /\ c = "enable")
      PROVE  Spoken(c, <<"Password:">>, "password")
  BY <1>2, <1>7 DEF Spoken, Specials, BannerLines
<1>8. ASSUME NEW k \in 0..MaxBody, mode # "password", ~(mode = "exec" /\ c = "enable"),
             NEW p, p = IF mode = "privileged" THEN "device#" ELSE "device>"
      PROVE  Spoken(c, [i \in 1..k |-> c] \o <<p>>, mode)
  <2> DEFINE s == [i \in 1..k |-> c]  u == <<p>>  text == s \o u
  <2>1. k \in Nat
    BY SessionAssumption
  <2>2. s \in Seq(Tokens) /\ Len(s) = k /\ \A i \in 1..k : s[i] = c
    BY <1>2, <2>1
  <2>3. u \in Seq(Tokens) /\ Len(u) = 1 /\ u[1] = p
    BY <1>2, <1>8 DEF Specials, BannerLines
  <2> HIDE DEF s, u
  <2>4. /\ text \in Seq(Tokens) /\ Len(text) = k + 1
        /\ \A i \in 1..(k + 1) : text[i] = IF i <= k THEN s[i] ELSE u[i - k]
    <3>1. /\ text \in Seq(Tokens) /\ Len(text) = Len(s) + Len(u)
          /\ \A i \in 1..(Len(s) + Len(u)) : text[i] = IF i <= Len(s) THEN s[i] ELSE u[i - Len(s)]
      BY <2>2, <2>3, ConcatProperties
    <3>2. QED
      BY <2>2, <2>3, <3>1
  <2> HIDE DEF text
  <2>5. DOMAIN text = 1..(k + 1)
    BY <2>1, <2>4
  <2>6. \A i \in DOMAIN text : text[i] = c \/ (text[i] = p /\ i = Len(text))
    <3> SUFFICES ASSUME NEW i \in DOMAIN text PROVE text[i] = c \/ (text[i] = p /\ i = Len(text))
      OBVIOUS
    <3>1. CASE i <= k
      BY <2>1, <2>2, <2>4, <2>5, <3>1
    <3>2. CASE i = k + 1
      BY <2>1, <2>3, <2>4, <2>5, <3>2
    <3>3. QED
      BY <2>1, <2>5, <3>1, <3>2
  <2>7. p \in Prompts /\ (p = "device#" => mode = "privileged")
    BY <1>8 DEF Prompts
  <2>8. Spoken(c, text, mode)
    BY <1>3, <1>4, <1>8, <2>4, <2>6, <2>7 DEF Spoken, Specials, BannerLines, Prompts
  <2>9. QED
    BY <2>8 DEF text, s, u
<1> DEFINE Said == \E text, m : Says(text, m) /\ Spoken(c, text, m)
<1>9. ASSUME TakePassword PROVE Said
  <2>1. mode = "password"
    BY <1>9 DEF TakePassword
  <2>2. CASE Says(<<"device#">>, "privileged")
    BY <1>6, <2>1, <2>2
  <2>3. CASE Says(<<"denied", "device>">>, "exec")
    BY <1>5, <2>1, <2>3
  <2>4. CASE Says(<<"Password:">>, mode)
    BY <1>7, <2>1, <2>4
  <2>5. QED
    BY <1>9, <2>2, <2>3, <2>4 DEF TakePassword, Denied
<1>10. ASSUME AskPassword PROVE Said
  <2>1. mode = "exec" /\ c = "enable"
    BY <1>10 DEF AskPassword, c
  <2>2. CASE Says(<<"denied", "device>">>, "exec")
    BY <1>5, <2>1, <2>2
  <2>3. CASE Says(<<"Password:">>, "password")
    BY <1>7, <2>1, <2>3
  <2>4. QED
    BY <1>10, <2>2, <2>3 DEF AskPassword, Denied
<1>11. ASSUME Show PROVE Said
  <2>1. mode # "password" /\ ~(mode = "exec" /\ c = "enable")
    BY <1>11 DEF Show, c
  <2>2. PICK k \in 0..MaxBody :
          Says([i \in 1..k |-> c]
               \o <<IF mode = "privileged" THEN "device#" ELSE "device>">>, mode)
    BY <1>11 DEF Show, c
  <2>3. Spoken(c, [i \in 1..k |-> c]
               \o <<IF mode = "privileged" THEN "device#" ELSE "device>">>, mode)
    BY <1>8, <2>1
  <2>4. QED
    BY <2>2, <2>3
<1> HIDE DEF Said
<1>12. Said
  BY <1>9, <1>10, <1>11 DEF Reply
<1>13. QED
  BY <1>1, <1>12 DEF Said, c

\* A read of n tokens, with which the client has read b, and what it does then.
ReadAs(n, b) ==
    /\ n \in 1..Len(wire) /\ phase = "read" /\ b = buf \o SubSeq(wire, 1, n)
    /\ wire' = SubSeq(wire, n + 1, Len(wire))
    /\ UNCHANGED <<late, inbox, mode, secret, open>>
    /\ \/ Fail /\ Len(b) > Cap /\ spilt' = (IF spilt = 0 THEN step ELSE spilt)
       \/ Accept(b) /\ Matches(b) /\ spilt' = spilt
       \/ /\ ~Matches(b) /\ (Len(b) <= Cap \/ Steps[step] = "enable")
          /\ phase' = "check" /\ buf' = b /\ UNCHANGED <<step, host, got, spilt>>

LEMMA AfterRead ==
  ASSUME buf \in Seq(Tokens), wire \in Seq(Tokens), ReadChunk
  PROVE  \E n, b : ReadAs(n, b)
<1>1. PICK n \in 1..Len(wire) : LET b == buf \o SubSeq(wire, 1, n) IN
        /\ phase = "read"
        /\ wire' = SubSeq(wire, n + 1, Len(wire))
        /\ IF Len(b) > Cap /\ Steps[step] # "enable"
           THEN Fail /\ spilt' = (IF spilt = 0 THEN step ELSE spilt)
           ELSE /\ IF Matches(b) THEN Accept(b)
                   ELSE phase' = "check" /\ buf' = b /\ UNCHANGED <<step, host, got>>
                /\ UNCHANGED spilt
        /\ UNCHANGED <<late, inbox, mode, secret, open>>
  BY DEF ReadChunk
<1> DEFINE b == buf \o SubSeq(wire, 1, n)
<1>2. Len(b) \in Nat /\ Cap \in Nat
  BY ReadEnds, SessionAssumption
<1>3. Len(b) > Cap \/ Len(b) <= Cap
  BY <1>2
<1> HIDE DEF b
<1>4. \/ Fail /\ Len(b) > Cap /\ spilt' = (IF spilt = 0 THEN step ELSE spilt)
      \/ Accept(b) /\ Matches(b) /\ spilt' = spilt
      \/ /\ ~Matches(b) /\ (Len(b) <= Cap \/ Steps[step] = "enable")
         /\ phase' = "check" /\ buf' = b /\ UNCHANGED <<step, host, got, spilt>>
  BY <1>1, <1>3 DEF b
<1>5. ReadAs(n, b)
  BY <1>1, <1>4 DEF ReadAs, b
<1>6. QED
  BY <1>5

---------------------------------------------------------------------------
(* Type correctness *)

ClientType ==
    /\ phase \in {"dial", "write", "check", "read", "answered", "failed"}
    /\ step \in 1..(Len(Steps) + 1) /\ (phase = "answered" <=> step = Len(Steps) + 1)
    /\ buf \in Seq(Tokens) /\ (buf # <<>> => phase \in {"check", "read"})
    /\ Len(buf) <= Cap \/ (step <= Len(Steps) /\ Steps[step] = "enable")
    /\ host \in {"", "device", "other"}
    /\ got \in [DOMAIN Steps -> SUBSET (Tokens \union {"error"})]

DeviceType ==
    /\ wire \in Seq(Tokens) /\ inbox \in Seq({Steps[n] : n \in DOMAIN Steps})
    /\ mode \in {"exec", "password", "privileged"}
    /\ secret \in {"right", "wrong", "unset", "unused"}
    /\ open \in BOOLEAN

LEMMA TypeSplit ==
  TypeOK <=> ClientType /\ DeviceType /\ late \in BOOLEAN /\ spilt \in 0..Len(Steps)
BY DEF TypeOK, ClientType, DeviceType

LEMMA FailType ==
  ASSUME TypeOK, phase # "answered", Fail
  PROVE  ClientType'
<1>1. /\ host' = host /\ buf' = <<>>
      /\ \/ phase' = "failed" /\ step' = step /\ got' = got
         \/ phase' \in {"write", "answered"} /\ got' = [got EXCEPT ![step] = {"error"}]
      /\ step' \in 1..(Len(Steps) + 1) /\ (phase' = "answered" <=> step' = Len(Steps) + 1)
  BY AfterFail
<1>2. buf' \in Seq(Tokens) /\ Len(buf') = 0 /\ Cap \in Nat
  BY <1>1, EmptySeq, SessionAssumption
<1>3. ClientType
  BY TypeSplit
<1>4. got' \in [DOMAIN Steps -> SUBSET (Tokens \union {"error"})]
  BY <1>1, <1>3 DEF ClientType
<1>5. Len(buf') <= Cap
  BY <1>2
<1>6. phase' \in {"failed", "write", "answered"} /\ host' \in {"", "device", "other"}
  BY <1>1, <1>3 DEF ClientType
<1>7. QED
  BY <1>1, <1>2, <1>4, <1>5, <1>6 DEF ClientType

LEMMA AcceptType ==
  ASSUME TypeOK, phase # "answered", NEW b \in Seq(Tokens), Accept(b)
  PROVE  ClientType'
<1>1. CASE Fail
  BY <1>1, FailType
<1>2. CASE ~Fail
  <2>1. /\ buf' = <<>> /\ phase' \in {"write", "answered"}
        /\ got' = [got EXCEPT ![step] = {b[i] : i \in DOMAIN b}]
        /\ host' = IF step = 1 THEN Hostname(b) ELSE host
        /\ step' \in 1..(Len(Steps) + 1) /\ (phase' = "answered" <=> step' = Len(Steps) + 1)
    BY <1>2, AfterAccept
  <2>2. buf' \in Seq(Tokens) /\ Len(buf') = 0 /\ Cap \in Nat
    BY <2>1, EmptySeq, SessionAssumption
  <2>3. ClientType
    BY TypeSplit
  <2>4. {b[i] : i \in DOMAIN b} \subseteq Tokens
    OBVIOUS
  <2>5. got' \in [DOMAIN Steps -> SUBSET (Tokens \union {"error"})]
    BY <2>1, <2>3, <2>4 DEF ClientType
  <2>6. host' \in {"", "device", "other"}
    BY <2>1, <2>3 DEF ClientType, Hostname
  <2>7. Len(buf') <= Cap
    BY <2>2
  <2>8. QED
    BY <2>1, <2>2, <2>5, <2>6, <2>7 DEF ClientType
<1>3. QED
  BY <1>1, <1>2

LEMMA TypeInit == Init => TypeOK
<1> SUFFICES ASSUME Init PROVE TypeOK
  OBVIOUS
<1>1. <<>> \in Seq(Tokens) /\ <<>> \in Seq({Steps[n] : n \in DOMAIN Steps}) /\ Len(<<>>) = 0
  BY EmptySeq
<1>2. Cap \in Nat /\ 0 <= Cap /\ 0 \in 0..Len(Steps) /\ 1 \in 1..(Len(Steps) + 1)
      /\ 1 # Len(Steps) + 1
  <2> DEFINE k == Len(Steps)
  <2>1. k \in Nat /\ k >= 5
    BY StepsFacts
  <2> HIDE DEF k
  <2>2. 0 \in 0..k /\ 1 \in 1..(k + 1) /\ 1 # k + 1
    BY <2>1
  <2>3. QED
    BY <2>2, SessionAssumption DEF k
<1>3. got \in [DOMAIN Steps -> SUBSET (Tokens \union {"error"})]
  BY DEF Init
<1>4. ClientType
  <2>1. phase = "dial" /\ step = 1 /\ buf = <<>> /\ host = ""
    BY DEF Init
  <2>2. Len(buf) <= Cap /\ step \in 1..(Len(Steps) + 1) /\ step # Len(Steps) + 1
    BY <1>1, <1>2, <2>1, Zenon
  <2>3. QED
    BY <1>1, <1>3, <2>1, <2>2 DEF ClientType
<1>5. DeviceType
  BY <1>1 DEF Init, DeviceType
<1>6. late \in BOOLEAN /\ spilt \in 0..Len(Steps)
  <2>1. late = FALSE /\ spilt = 0
    BY DEF Init
  <2>2. QED
    BY <1>2, <2>1, Zenon
<1>7. QED
  BY <1>4, <1>5, <1>6, TypeSplit

LEMMA TypeStep ==
  ASSUME TypeOK, [Next]_vars
  PROVE  TypeOK'
<1>1. ClientType /\ DeviceType /\ late \in BOOLEAN /\ spilt \in 0..Len(Steps)
  BY TypeSplit
<1>2. ASSUME ClientType', DeviceType', late' \in BOOLEAN, spilt' \in 0..Len(Steps)
      PROVE  TypeOK'
  BY <1>2 DEF TypeOK, ClientType, DeviceType
<1>3. UNCHANGED client => ClientType' /\ spilt' \in 0..Len(Steps)
  BY <1>1 DEF client, ClientType
<1>4. UNCHANGED device => DeviceType'
  BY <1>1 DEF device, DeviceType
<1>5. ASSUME Dial PROVE TypeOK'
  <2>1. /\ phase = "dial" /\ phase' \in {"check", "failed"}
        /\ UNCHANGED <<step, buf, host, got, spilt, late, inbox, mode, secret, open>>
    BY <1>5 DEF Dial
  <2>2. wire' \in Seq(Tokens)
    <3>1. Banner \in Seq(Tokens)
      <4>1. Banner \in Seq(BannerLines) /\ BannerLines \subseteq Tokens
        BY SessionAssumption, StepsFacts DEF Specials
      <4>2. QED
        BY <4>1, SeqMonotonic
    <3>2. ASSUME NEW p \in {"device#", "device>"} PROVE Banner \o <<p>> \in Seq(Tokens)
      <4>1. p \in Tokens
        BY StepsFacts DEF Specials, BannerLines
      <4>2. <<p>> \in Seq(Tokens)
        BY <4>1
      <4>3. QED
        BY <3>1, <4>2, ConcatProperties
    <3>3. wire' = wire \/ \E p \in {"device#", "device>"} : wire' = Banner \o <<p>>
      BY <1>5 DEF Dial
    <3>4. QED
      BY <1>1, <3>2, <3>3 DEF DeviceType
  <2>3. ClientType'
    BY <1>1, <2>1 DEF ClientType
  <2>4. DeviceType'
    BY <1>1, <2>1, <2>2 DEF DeviceType
  <2>5. QED
    BY <1>1, <1>2, <2>1, <2>3, <2>4
<1>6. ASSUME Write PROVE TypeOK'
  <2>1. phase = "write" /\ UNCHANGED <<spilt, late, wire, mode, secret, open>>
    BY <1>6 DEF Write
  <2>2. CASE open
    <3>1. /\ inbox' = Append(inbox, Steps[step]) /\ phase' = "check"
          /\ UNCHANGED <<step, buf, host, got>>
      BY <1>6, <2>2 DEF Write
    <3>2. step \in DOMAIN Steps
      BY <2>1, AtStep
    <3>3. inbox' \in Seq({Steps[n] : n \in DOMAIN Steps})
      BY <1>1, <3>1, <3>2, AppendProperties DEF DeviceType
    <3>4. ClientType'
      BY <1>1, <2>1, <3>1 DEF ClientType
    <3>5. DeviceType'
      BY <1>1, <2>1, <3>3 DEF DeviceType
    <3>6. QED
      BY <1>1, <1>2, <2>1, <3>4, <3>5
  <2>3. CASE ~open
    <3>1. Fail /\ UNCHANGED device
      BY <1>6, <2>1, <2>3 DEF Write, device
    <3>2. ClientType'
      BY <2>1, <3>1, FailType
    <3>3. QED
      BY <1>1, <1>2, <1>4, <2>1, <3>1, <3>2
  <2>4. QED
    BY <2>2, <2>3
<1>7. ASSUME Check PROVE TypeOK'
  <2>1. phase = "check" /\ UNCHANGED <<spilt, late, device>>
    BY <1>7 DEF Check
  <2>2. ClientType'
    <3>1. CASE late
      BY <1>7, <2>1, <3>1, FailType DEF Check
    <3>2. CASE ~late
      <4>1. phase' = "read" /\ UNCHANGED <<step, buf, host, got>>
        BY <1>7, <3>2 DEF Check
      <4>2. QED
        BY <1>1, <2>1, <4>1 DEF ClientType
    <3>3. QED
      BY <3>1, <3>2
  <2>3. QED
    BY <1>1, <1>2, <1>4, <2>1, <2>2
<1>8. ASSUME ReadChunk PROVE TypeOK'
  <2>0. PICK n, b : ReadAs(n, b)
    BY <1>1, <1>8, AfterRead DEF ClientType, DeviceType
  <2>1. /\ n \in 1..Len(wire)
        /\ phase = "read" /\ b = buf \o SubSeq(wire, 1, n)
        /\ wire' = SubSeq(wire, n + 1, Len(wire))
        /\ UNCHANGED <<late, inbox, mode, secret, open>>
        /\ \/ Fail /\ spilt' = (IF spilt = 0 THEN step ELSE spilt)
           \/ Accept(b) /\ Matches(b) /\ spilt' = spilt
           \/ /\ ~Matches(b) /\ (Len(b) <= Cap \/ Steps[step] = "enable")
              /\ phase' = "check" /\ buf' = b /\ UNCHANGED <<step, host, got, spilt>>
    BY <2>0 DEF ReadAs
  <2>2. b \in Seq(Tokens) /\ wire' \in Seq(Tokens)
    <3>1. buf \in Seq(Tokens) /\ wire \in Seq(Tokens)
      BY <1>1 DEF ClientType, DeviceType
    <3>2. b \in Seq(Tokens)
      BY <2>1, <3>1, ReadEnds
    <3>3. wire' \in Seq(Tokens)
      BY <2>1, <3>1, ReadRest
    <3>4. QED
      BY <3>2, <3>3
  <2>3. DeviceType'
    BY <1>1, <2>1, <2>2 DEF DeviceType
  <2>4. step \in 0..Len(Steps) /\ step <= Len(Steps)
    BY <2>1, AtStep, StepsFacts
  <2>5. ClientType' /\ spilt' \in 0..Len(Steps)
    <3>1. CASE Fail
      BY <1>1, <2>1, <2>4, <3>1, FailType
    <3>2. CASE Accept(b) /\ spilt' = spilt
      BY <1>1, <2>1, <2>2, <3>2, AcceptType
    <3>3. CASE /\ Len(b) <= Cap \/ Steps[step] = "enable"
               /\ phase' = "check" /\ buf' = b /\ UNCHANGED <<step, host, got, spilt>>
      BY <1>1, <2>1, <2>2, <2>4, <3>3 DEF ClientType
    <3>4. QED
      BY <2>1, <3>1, <3>2, <3>3
  <2>6. QED
    BY <1>1, <1>2, <2>1, <2>3, <2>5
<1>9. ASSUME ReadEnd PROVE TypeOK'
  BY <1>1, <1>2, <1>4, <1>9, FailType DEF ReadEnd
<1>10. ASSUME Expire PROVE TypeOK'
  BY <1>1, <1>2, <1>3, <1>4, <1>10 DEF Expire
<1>11. ASSUME Reply PROVE TypeOK'
  <2>1. PICK text, m : Says(text, m) /\ Spoken(Head(inbox), text, m)
    BY <1>11, AfterReply
  <2>2. wire' \in Seq(Tokens) /\ mode' \in {"exec", "password", "privileged"}
    BY <1>1, <2>1, SaysAfter DEF Spoken, DeviceType
  <2>3. inbox' \in Seq({Steps[n] : n \in DOMAIN Steps})
    BY <1>11, AfterReply, Commanded
  <2>4. UNCHANGED <<client, late, secret, open>>
    BY <1>11, AfterReply
  <2>5. DeviceType'
    BY <1>1, <2>2, <2>3, <2>4 DEF DeviceType
  <2>6. QED
    BY <1>1, <1>2, <1>3, <2>4, <2>5
<1>12. ASSUME GiveUp PROVE TypeOK'
  <2>1. /\ Says(<<"denied", "device>">>, "exec")
        /\ UNCHANGED <<client, late, inbox, secret, open>>
    BY <1>12 DEF GiveUp, Denied
  <2>2. <<"denied", "device>">> \in Seq(Tokens)
    BY StepsFacts DEF Specials, BannerLines
  <2>3. wire' \in Seq(Tokens) /\ mode' = "exec"
    BY <1>1, <2>1, <2>2, SaysAfter DEF DeviceType
  <2>4. DeviceType'
    BY <1>1, <2>1, <2>3 DEF DeviceType
  <2>5. QED
    BY <1>1, <1>2, <1>3, <2>1, <2>4
<1>13. ASSUME Close PROVE TypeOK'
  <2>1. PICK n \in 0..Len(wire) : wire' = SubSeq(wire, 1, n)
    BY <1>13 DEF Close
  <2>2. open' = FALSE /\ inbox' = <<>> /\ UNCHANGED <<client, late, mode, secret>>
    BY <1>13 DEF Close
  <2>3. wire' \in Seq(Tokens)
    BY <1>1, <2>1 DEF DeviceType
  <2>4. DeviceType'
    BY <1>1, <2>2, <2>3, EmptySeq DEF DeviceType
  <2>5. QED
    BY <1>1, <1>2, <1>3, <2>2, <2>4
<1>14. CASE UNCHANGED vars
  BY <1>1, <1>2, <1>3, <1>4, <1>14 DEF vars, client, device
<1>15. QED
  BY <1>5, <1>6, <1>7, <1>8, <1>9, <1>10, <1>11, <1>12, <1>13, <1>14 DEF Next, ClientStep

(***************************************************************************)
(* Every variable is in its set, the buffer never exceeds its bound but in *)
(* the wait for "Password:", and a command starts with an empty one.       *)
(***************************************************************************)
THEOREM TypeCorrect == Spec => []TypeOK
BY TypeInit, TypeStep, PTL DEF Spec

---------------------------------------------------------------------------
(***************************************************************************)
(* Privilege.  The client goes on to "length" only after it has read a "#",*)
(* or has no password to ask with.  Once it is past the banner, a "#" is   *)
(* the device's own, and a device that has shown one is privileged for     *)
(* good.  While it reads the banner, what it has read and what is on its   *)
(* way are the banner and the prompt after it, in this order.              *)
(***************************************************************************)
UnmisledBanner == \A i, j \in DOMAIN Banner :
    j <= i /\ Banner[j] \in Looked("") => Banner[i] \notin Hashes

Sent == \A i \in DOMAIN inbox : \E m \in DOMAIN Steps : m <= step /\ inbox[i] = Steps[m]

Hashed == Has(buf, Hashes) \/ Has(wire, Hashes)

HashShown == step # 1 /\ Hashed => mode = "privileged"

Privilege == EnableGiven /\ step >= 4 => mode = "privileged"

Greets(i) == IF i <= Len(Banner) THEN Banner[i]
             ELSE IF mode = "privileged" THEN "device#" ELSE "device>"

Greeting ==
    /\ phase = "dial" => step = 1
    /\ step = 1 /\ phase # "failed" =>
          /\ inbox = <<>> /\ mode # "password" /\ phase # "write" /\ host = ""
          /\ phase = "dial" => buf = <<>> /\ wire = <<>>
          /\ phase # "dial" =>
                /\ Len(buf) + Len(wire) <= Len(Banner) + 1
                /\ \A i \in DOMAIN buf : buf[i] = Greets(i) /\ buf[i] \notin Looked("")
                /\ \A i \in DOMAIN wire : wire[i] = Greets(Len(buf) + i)

Escalated == Sent /\ HashShown /\ Privilege /\ Greeting

LEMMA EscalatedImplies ==
  ASSUME TypeOK, Escalated
  PROVE  Parked
<1> SUFFICES ASSUME EnableGiven, Has(inbox, Commands) PROVE mode = "privileged"
  BY DEF Parked
<1>1. PICK i \in DOMAIN inbox : inbox[i] \in Commands
  BY DEF Has
<1>2. PICK m \in DOMAIN Steps : m <= step /\ inbox[i] = Steps[m]
  BY <1>1 DEF Escalated, Sent
<1>3. m > 5 /\ step \in Nat /\ m \in Nat
  BY <1>1, <1>2, CommandSteps, StepIsNat
<1>4. QED
  BY <1>2, <1>3 DEF Escalated, Privilege

\* The steps of a client that gets on, or to an end, and says nothing.
LEMMA EscalatedKept ==
  ASSUME TypeOK, Escalated, step' \in Nat, step' >= step, mode' = mode, secret' = secret,
         \A i \in DOMAIN inbox' : i \in DOMAIN inbox /\ inbox'[i] = inbox[i],
         step' # 1 /\ Hashed' => mode = "privileged",
         EnableGiven /\ step < 4 /\ step' >= 4 => mode = "privileged",
         Greeting'
  PROVE  Escalated'
<1>1. step \in Nat /\ DOMAIN Steps \subseteq Nat
  BY StepIsNat
<1>2. Sent'
  BY <1>1 DEF Escalated, Sent
<1>3. HashShown'
  BY DEF HashShown
<1>4. Privilege'
  BY <1>1 DEF Escalated, Privilege, EnableGiven
<1>5. QED
  BY <1>2, <1>3, <1>4 DEF Escalated

\* A client that has not read anything, and a line that breaks off at most.
LEMMA GreetingKept ==
  ASSUME TypeOK, Greeting, UNCHANGED <<step, host, buf, mode>>,
         inbox' = inbox \/ inbox' = <<>>,
         phase' = phase \/ (phase = "check" /\ phase' = "read"),
         Len(wire') \in Nat, Len(wire') <= Len(wire), wire = <<>> => wire' = <<>>,
         \A i \in DOMAIN wire' : i \in DOMAIN wire /\ wire'[i] = wire[i]
  PROVE  Greeting'
<1>1. phase' = "dial" => phase = "dial"
  OBVIOUS
<1> SUFFICES ASSUME step = 1, phase' # "failed" PROVE Greeting'
  BY <1>1 DEF Greeting
<1>2. /\ inbox' = <<>> /\ mode' # "password" /\ phase' # "write" /\ host' = ""
      /\ phase' = "dial" => buf' = <<>> /\ wire' = <<>>
  BY <1>1 DEF Greeting
<1>3. CASE phase' = "dial"
  BY <1>2, <1>3 DEF Greeting
<1>4. CASE phase' # "dial"
  <2>1. /\ Len(buf) + Len(wire) <= Len(Banner) + 1
        /\ \A i \in DOMAIN buf : buf[i] = Greets(i) /\ buf[i] \notin Looked("")
        /\ \A i \in DOMAIN wire : wire[i] = Greets(Len(buf) + i)
    BY <1>4 DEF Greeting
  <2>2. Len(buf) \in Nat /\ Len(wire) \in Nat /\ Len(Banner) \in Nat
    <3>1. buf \in Seq(Tokens) /\ wire \in Seq(Tokens) /\ Banner \in Seq(BannerLines)
      BY SessionAssumption DEF TypeOK
    <3>2. QED
      BY <3>1
  <2>3. Len(buf') + Len(wire') <= Len(Banner) + 1
    <3> DEFINE k == Len(buf)  l == Len(wire)  m == Len(wire')  o == Len(Banner)
    <3>1. k + l <= o + 1 /\ m <= l /\ k \in Nat /\ l \in Nat /\ m \in Nat /\ o \in Nat
      BY <2>1, <2>2
    <3>2. Len(buf') = k
      OBVIOUS
    <3> HIDE DEF k, l, m, o
    <3>3. k + m <= o + 1
      BY <3>1
    <3>4. QED
      BY <3>2, <3>3 DEF m, o
  <2>4. QED
    BY <1>2, <1>4, <2>1, <2>3 DEF Greeting, Greets
<1>5. QED
  BY <1>3, <1>4

\* What a read of the banner leaves, and what it is taken for.
LEMMA GreetingRead ==
  ASSUME UnmisledBanner, TypeOK, Greeting, step = 1, phase = "read",
         NEW n \in 1..Len(wire), NEW b, b = buf \o SubSeq(wire, 1, n),
         wire' = SubSeq(wire, n + 1, Len(wire))
  PROVE  /\ Len(b) + Len(wire') <= Len(Banner) + 1
         /\ \A i \in DOMAIN b : b[i] = Greets(i)
         /\ \A i \in DOMAIN wire' : wire'[i] = Greets(Len(b) + i)
         /\ Matches(b) /\ (EndsPrivileged(b) \/ Has(wire', Hashes)) => mode = "privileged"
         /\ ~Matches(b) => \A i \in DOMAIN b : b[i] \notin Looked("")
<1>0. buf \in Seq(Tokens) /\ wire \in Seq(Tokens) /\ Banner \in Seq(BannerLines)
  BY SessionAssumption DEF TypeOK
<1>1. /\ Len(buf) \in Nat /\ Len(wire) \in Nat /\ Len(Banner) \in Nat
      /\ n \in Nat /\ n >= 1 /\ n <= Len(wire)
      /\ DOMAIN wire = 1..Len(wire) /\ DOMAIN Banner = 1..Len(Banner)
  BY <1>0
<1>2. /\ Len(buf) + Len(wire) <= Len(Banner) + 1 /\ host = ""
      /\ \A i \in DOMAIN buf : buf[i] = Greets(i)
      /\ \A i \in DOMAIN wire : wire[i] = Greets(Len(buf) + i)
  BY DEF Greeting
<1>3. /\ b \in Seq(Tokens) /\ Len(b) = Len(buf) + n /\ Len(b) \in Nat /\ Len(b) \in DOMAIN b
      /\ FromRead(n, b)
  <2>1. b \in Seq(Tokens) /\ Len(b) = Len(buf) + n /\ Len(b) \in Nat /\ Len(b) \in DOMAIN b
    BY <1>0, ReadEnds
  <2>2. FromRead(n, b)
    BY <1>0, ReadItems
  <2>3. QED
    BY <2>1, <2>2
<1>4. /\ wire' \in Seq(Tokens) /\ Len(wire') = Len(wire) - n
      /\ \A i \in DOMAIN wire' : n + i \in DOMAIN wire /\ wire'[i] = wire[n + i]
  BY <1>0, ReadRest
<1>5. Len(b) + Len(wire') <= Len(Banner) + 1
  <2> DEFINE k == Len(buf)  l == Len(wire)  o == Len(Banner)
  <2>1. k + l <= o + 1 /\ n <= l /\ k \in Nat /\ l \in Nat /\ o \in Nat
    BY <1>1, <1>2
  <2>2. Len(b) = k + n /\ Len(wire') = l - n
    BY <1>3, <1>4
  <2> HIDE DEF k, l, o
  <2>3. (k + n) + (l - n) <= o + 1
    BY <1>1, <2>1
  <2>4. QED
    BY <2>2, <2>3 DEF o
<1>6. ASSUME NEW i \in DOMAIN b PROVE b[i] = Greets(i)
  <2>1. CASE i \in DOMAIN buf /\ b[i] = buf[i]
    BY <1>2, <2>1
  <2>2. ASSUME NEW j \in 1..n, b[i] = wire[j], i = Len(buf) + j PROVE b[i] = Greets(i)
    <3>1. j \in DOMAIN wire
      BY <1>1
    <3>2. QED
      BY <1>2, <2>2, <3>1
  <2>3. QED
    BY <1>3, <2>1, <2>2 DEF FromRead
<1>7. ASSUME NEW i \in DOMAIN wire'
      PROVE  wire'[i] = Greets(Len(b) + i) /\ i \in Nat
  <2>1. i \in Nat
    BY <1>4
  <2>2. wire'[i] = wire[n + i] /\ wire[n + i] = Greets(Len(buf) + (n + i))
    BY <1>2, <1>4
  <2>3. Len(buf) + (n + i) = Len(b) + i
    BY <1>1, <1>3, <2>1
  <2>4. QED
    BY <2>1, <2>2, <2>3
<1>8. Matches(b) <=> Has(b, Looked(""))
  <2>1. Steps[step] # "enable"
    BY StepsFacts
  <2>2. QED
    BY <1>2, <2>1 DEF Matches
<1>9. ASSUME NEW k \in DOMAIN b, b[k] \in Looked(""), NEW i \in Nat, i >= k, Greets(i) \in Hashes
      PROVE  mode = "privileged"
  <2>1. k \in Nat /\ k >= 1
    BY <1>3
  <2>2. CASE i <= Len(Banner)
    <3>1. i \in DOMAIN Banner /\ k \in DOMAIN Banner /\ k <= i
      <4> DEFINE o == Len(Banner)
      <4>1. o \in Nat /\ DOMAIN Banner = 1..o /\ i <= o
        BY <1>1, <2>2
      <4> HIDE DEF o
      <4>2. i \in Nat /\ i >= k
        BY <1>9
      <4>3. i \in 1..o /\ k \in 1..o /\ k <= i
        BY <2>1, <4>1, <4>2
      <4>4. QED
        BY <4>1, <4>3
    <3>2. Banner[k] = b[k] /\ Banner[i] = Greets(i)
      BY <1>6, <2>2, <3>1, <1>1 DEF Greets
    <3>3. QED
      BY <1>9, <3>1, <3>2 DEF UnmisledBanner
  <2>3. CASE ~(i <= Len(Banner))
    BY <1>9, <2>3 DEF Greets, Hashes
  <2>4. QED
    BY <2>2, <2>3
<1>10. ASSUME Matches(b), EndsPrivileged(b) \/ Has(wire', Hashes) PROVE mode = "privileged"
  <2>1. PICK k \in DOMAIN b : b[k] \in Looked("")
    BY <1>8, <1>10 DEF Has
  <2>2. k \in Nat /\ k <= Len(b)
    BY <1>3
  <2>3. CASE EndsPrivileged(b)
    <3>1. Greets(Len(b)) \in Hashes
      BY <1>3, <1>6, <2>3 DEF EndsPrivileged
    <3>2. QED
      BY <1>3, <1>9, <2>1, <2>2, <3>1
  <2>4. CASE Has(wire', Hashes)
    <3>1. PICK i \in DOMAIN wire' : wire'[i] \in Hashes
      BY <2>4 DEF Has
    <3>2. Greets(Len(b) + i) \in Hashes /\ i \in Nat
      BY <1>7, <3>1
    <3>3. Len(b) + i \in Nat /\ Len(b) + i >= k
      BY <1>3, <2>2, <3>2
    <3>4. QED
      BY <1>9, <2>1, <3>2, <3>3
  <2>5. QED
    BY <1>10, <2>3, <2>4
<1>11. ~Matches(b) => \A i \in DOMAIN b : b[i] \notin Looked("")
  BY <1>8 DEF Has
<1>12. QED
  BY <1>5, <1>6, <1>7, <1>10, <1>11

LEMMA GreetingDial ==
  ASSUME TypeOK, Escalated, Dial
  PROVE  Greeting'
<1>1. /\ phase = "dial" /\ step = 1 /\ buf = <<>> /\ inbox = <<>> /\ mode # "password"
      /\ host = "" /\ UNCHANGED <<step, buf, host, inbox, mode>>
  BY DEF Dial, Escalated, Greeting
<1>2. CASE ~open
  BY <1>1, <1>2 DEF Dial, Greeting
<1>3. CASE open
  <2> DEFINE p == IF mode = "privileged" THEN "device#" ELSE "device>"  u == <<p>>
  <2>1. phase' = "check" /\ wire' = Banner \o u
    BY <1>3 DEF Dial
  <2>2. Banner \in Seq(BannerLines) /\ u \in Seq(BannerLines) /\ Len(u) = 1 /\ u[1] = p
    BY SessionAssumption DEF BannerLines
  <2> HIDE DEF u, p
  <2>3. /\ wire' \in Seq(BannerLines) /\ Len(wire') = Len(Banner) + 1 /\ Len(Banner) \in Nat
        /\ \A i \in 1..(Len(Banner) + 1) :
              wire'[i] = IF i <= Len(Banner) THEN Banner[i] ELSE u[i - Len(Banner)]
    <3> DEFINE S == BannerLines
    <3>0. Banner \in Seq(S) /\ u \in Seq(S)
      BY <2>2
    <3> HIDE DEF S
    <3>1. /\ wire' \in Seq(S) /\ Len(wire') = Len(Banner) + Len(u) /\ Len(Banner) \in Nat
          /\ \A i \in 1..(Len(Banner) + Len(u)) :
                wire'[i] = IF i <= Len(Banner) THEN Banner[i] ELSE u[i - Len(Banner)]
      BY <2>1, <3>0, ConcatProperties
    <3>2. QED
      BY <2>2, <3>1 DEF S
  <2>4. ASSUME NEW i \in DOMAIN wire' PROVE wire'[i] = Greets(i) /\ i \in Nat
    <3>1. i \in 1..(Len(Banner) + 1) /\ i \in Nat
      BY <2>3
    <3>2. CASE i <= Len(Banner)
      BY <2>3, <3>1, <3>2 DEF Greets
    <3>3. CASE i = Len(Banner) + 1
      <4>1. ~(i <= Len(Banner)) /\ i - Len(Banner) = 1
        BY <2>3, <3>3
      <4>2. wire'[i] = p
        BY <2>2, <2>3, <3>1, <4>1
      <4>3. QED
        BY <3>1, <4>1, <4>2 DEF Greets, p
    <3>4. QED
      BY <2>3, <3>1, <3>2, <3>3
  <2>5. Len(buf) = 0 /\ \A i \in DOMAIN wire' : Len(buf) + i = i
    <3>1. Len(buf) = 0
      BY <1>1, EmptySeq
    <3>2. ASSUME NEW i \in DOMAIN wire' PROVE 0 + i = i
      BY <2>4
    <3>3. QED
      BY <3>1, <3>2
  <2>6. Len(buf) + Len(wire') <= Len(Banner) + 1
    BY <2>3, <2>5
  <2>7. \A i \in DOMAIN wire' : wire'[i] = Greets(Len(buf) + i)
    BY <2>4, <2>5
  <2>8. DOMAIN buf = {}
    <3>1. DOMAIN <<>> = {}
      OBVIOUS
    <3>2. QED
      BY <1>1, <3>1
  <2>9. QED
    BY <1>1, <2>1, <2>6, <2>7, <2>8 DEF Greeting, Greets
<1>4. QED
  BY <1>2, <1>3

LEMMA EscalatedRead ==
  ASSUME UnmisledBanner, TypeOK, Escalated, ReadChunk
  PROVE  Escalated'
<1>1. /\ buf \in Seq(Tokens) /\ wire \in Seq(Tokens) /\ step \in Nat /\ step >= 1
      /\ DOMAIN Steps \subseteq Nat /\ phase = "read"
  BY StepIsNat, AtStep DEF TypeOK, ReadChunk
<1>2. PICK n, b : ReadAs(n, b)
  BY <1>1, AfterRead
<1>3. /\ n \in 1..Len(wire) /\ b = buf \o SubSeq(wire, 1, n)
      /\ wire' = SubSeq(wire, n + 1, Len(wire))
      /\ UNCHANGED <<late, inbox, mode, secret, open>>
  BY <1>2 DEF ReadAs
<1>4. /\ Has(b, Hashes) => Hashed
      /\ Has(wire', Hashes) => Has(wire, Hashes)
      /\ EndsPrivileged(b) => Has(b, Hashes)
  <2>1. Len(b) \in DOMAIN b
    BY <1>1, <1>3, ReadEnds
  <2>2. FromRead(n, b) /\ \A j \in 1..n : j \in DOMAIN wire
    <3>1. FromRead(n, b)
      BY <1>1, <1>3, ReadItems
    <3>2. \A j \in 1..n : j \in DOMAIN wire
      BY <1>1, <1>3
    <3>3. QED
      BY <3>1, <3>2
  <2>3. \A i \in DOMAIN wire' : n + i \in DOMAIN wire /\ wire'[i] = wire[n + i]
    BY <1>1, <1>3, ReadRest
  <2>4. QED
    BY <2>1, <2>2, <2>3 DEF FromRead, Has, Hashed, EndsPrivileged
<1>5. step # 1 /\ Hashed => mode = "privileged"
  BY DEF Escalated, HashShown
<1>6. CASE Fail
  <2>1. /\ step' \in Nat /\ step' >= step /\ buf' = <<>> /\ (step < 4 => step' < 4)
        /\ phase' # "dial" /\ (step' = 1 => step = 1 /\ phase' = "failed")
    BY <1>1, <1>6, AfterFail
  <2>2. step' # 1 /\ Hashed' => mode = "privileged"
    <3>1. step' # 1 => step # 1
      BY <1>1, <1>6, AfterFail
    <3>2. Hashed' => Hashed
      BY <1>4, <2>1 DEF Hashed, Has
    <3>3. QED
      BY <1>5, <3>1, <3>2
  <2>3. Greeting'
    BY <2>1 DEF Greeting
  <2>4. QED
    BY <1>1, <1>3, <2>1, <2>2, <2>3, EscalatedKept
<1>7. CASE ~Matches(b) /\ phase' = "check" /\ buf' = b /\ UNCHANGED <<step, host, got, spilt>>
  <2>1. step' # 1 /\ Hashed' => mode = "privileged"
    BY <1>4, <1>5, <1>7 DEF Hashed
  <2>2. Greeting'
    <3> SUFFICES ASSUME step = 1 PROVE Greeting'
      BY <1>7 DEF Greeting
    <3>1. Greeting
      BY DEF Escalated
    <3>2. /\ Len(b) + Len(wire') <= Len(Banner) + 1
          /\ \A i \in DOMAIN b : b[i] = Greets(i) /\ b[i] \notin Looked("")
          /\ \A i \in DOMAIN wire' : wire'[i] = Greets(Len(b) + i)
      BY <1>1, <1>3, <1>7, <3>1, GreetingRead
    <3>3. inbox = <<>> /\ mode # "password" /\ host = ""
      BY <1>1, <3>1 DEF Greeting
    <3>4. QED
      BY <1>3, <1>7, <3>2, <3>3 DEF Greeting, Greets
  <2>3. QED
    BY <1>1, <1>3, <1>7, <2>1, <2>2, EscalatedKept
<1>8. CASE Accept(b) /\ Matches(b) /\ ~Fail
  <2>1. /\ buf' = <<>> /\ phase' \in {"write", "answered"}
        /\ \/ step' = step + 1
           \/ step' = 4 /\ step = 1 /\ (EndsPrivileged(b) \/ ~EnableGiven)
        /\ step = 3 => EndsPrivileged(b)
    BY <1>1, <1>8, AfterAccept
  <2>2. step' \in Nat /\ step' >= step /\ step' # 1
    BY <1>1, <2>1
  <2>3. EndsPrivileged(b) \/ Has(wire', Hashes) => mode = "privileged"
    <3>1. CASE step = 1
      BY <1>1, <1>3, <1>8, <3>1, GreetingRead DEF Escalated
    <3>2. CASE step # 1
      BY <1>4, <1>5, <3>2 DEF Hashed
    <3>3. QED
      BY <3>1, <3>2
  <2>4. EnableGiven /\ step < 4 /\ step' >= 4 => mode = "privileged"
    BY <1>1, <2>1, <2>3
  <2>5. Hashed' => mode = "privileged"
    BY <2>1, <2>3 DEF Hashed, Has
  <2>6. Greeting'
    BY <2>1, <2>2 DEF Greeting
  <2>7. QED
    BY <1>1, <1>3, <2>2, <2>4, <2>5, <2>6, EscalatedKept
<1>9. QED
  BY <1>2, <1>6, <1>7, <1>8 DEF ReadAs

LEMMA EscalatedStep ==
  ASSUME UnmisledBanner, TypeOK, Escalated, [Next]_vars
  PROVE  Escalated'
<1>1. /\ buf \in Seq(Tokens) /\ wire \in Seq(Tokens) /\ step \in Nat
      /\ DOMAIN Steps \subseteq Nat /\ Len(wire) \in Nat
  <2>1. buf \in Seq(Tokens) /\ wire \in Seq(Tokens)
    BY DEF TypeOK
  <2>2. QED
    BY <2>1, StepIsNat
<1>2. Greeting /\ (step # 1 /\ Hashed => mode = "privileged")
  BY DEF Escalated, HashShown
<1>3. ASSUME phase \in {"write", "check", "read"}, Fail,
             UNCHANGED <<wire, inbox, mode, secret>>
      PROVE  Escalated'
  <2>1. /\ step' \in Nat /\ step' >= step /\ buf' = <<>> /\ (step < 4 => step' < 4)
        /\ phase' # "dial" /\ (step' = 1 => phase' = "failed") /\ (step' # 1 => step # 1)
    <3>1. step >= 1
      BY <1>3, AtStep
    <3>2. QED
      BY <1>1, <1>3, <3>1, AfterFail
  <2>2. step' # 1 /\ Hashed' => mode = "privileged"
    BY <1>2, <1>3, <2>1 DEF Hashed, Has
  <2>3. Greeting'
    BY <2>1 DEF Greeting
  <2>4. QED
    BY <1>1, <1>3, <2>1, <2>2, <2>3, EscalatedKept
<1>4. CASE Dial
  <2>1. UNCHANGED <<step, inbox, mode, secret>> /\ step = 1
    BY <1>4, <1>2 DEF Dial, Greeting
  <2>2. Greeting'
    BY <1>4, GreetingDial
  <2>3. QED
    BY <1>1, <2>1, <2>2, EscalatedKept
<1>5. CASE Write
  <2>1. phase = "write" /\ UNCHANGED <<wire, mode, secret>> /\ step # 1
    BY <1>2, <1>5 DEF Write, Greeting
  <2>2. CASE ~open
    BY <1>3, <1>5, <2>1, <2>2 DEF Write
  <2>3. CASE open
    <3>1. inbox' = Append(inbox, Steps[step]) /\ phase' = "check" /\ UNCHANGED <<step, buf>>
      BY <1>5, <2>3 DEF Write
    <3>2. step \in DOMAIN Steps
      BY <2>1, AtStep
    <3>3. \A i \in DOMAIN inbox' :
             (i \in DOMAIN inbox /\ inbox'[i] = inbox[i]) \/ inbox'[i] = Steps[step]
      <4> DEFINE S == {Steps[n] : n \in DOMAIN Steps}
      <4>1. inbox \in Seq(S) /\ Steps[step] \in S
        BY <3>2 DEF TypeOK
      <4> HIDE DEF S
      <4>2. QED
        BY <3>1, <4>1
    <3>4. Sent'
      BY <1>1, <3>1, <3>2, <3>3 DEF Escalated, Sent
    <3>5. HashShown' /\ Privilege'
      BY <2>1, <3>1 DEF Escalated, HashShown, Hashed, Privilege, EnableGiven
    <3>6. Greeting'
      BY <2>1, <3>1 DEF Greeting
    <3>7. QED
      BY <3>4, <3>5, <3>6 DEF Escalated
  <2>4. QED
    BY <2>2, <2>3
<1>6. CASE Check
  <2>1. phase = "check" /\ UNCHANGED <<wire, inbox, mode, secret>>
    BY <1>6 DEF Check, device
  <2>2. CASE late
    BY <1>3, <1>6, <2>1, <2>2 DEF Check
  <2>3. CASE ~late
    <3>1. phase' = "read" /\ UNCHANGED <<step, buf, host>>
      BY <1>6, <2>3 DEF Check
    <3>2. Greeting'
      BY <1>1, <1>2, <2>1, <3>1, GreetingKept
    <3>3. QED
      BY <1>1, <1>2, <2>1, <3>1, <3>2, EscalatedKept DEF Hashed
  <2>4. QED
    BY <2>2, <2>3
<1>7. CASE ReadChunk
  BY <1>7, EscalatedRead
<1>8. CASE ReadEnd
  BY <1>3, <1>8 DEF ReadEnd, device
<1>9. CASE Reply
  <2>1. PICK text, m : Says(text, m) /\ Spoken(Head(inbox), text, m)
    BY <1>9, AfterReply
  <2>2. inbox # <<>> /\ inbox' = Tail(inbox) /\ UNCHANGED <<client, late, secret, open>>
    BY <1>9, AfterReply
  <2>3. /\ \A i \in DOMAIN wire' :
              \/ i \in DOMAIN wire /\ wire'[i] = wire[i]
              \/ \E j \in DOMAIN text : wire'[i] = text[j]
        /\ mode' = m
    BY <1>1, <2>1, SaysAfter DEF Spoken
  <2>4. Sent'
    <3>1. \A i \in DOMAIN inbox' : \E j \in DOMAIN inbox : inbox'[i] = inbox[j]
      BY <2>2, Commanded
    <3>2. QED
      BY <2>2, <3>1 DEF Escalated, Sent, client
  <2>5. \A j \in DOMAIN text : text[j] \in Hashes => m = "privileged"
    <3>1. Head(inbox) \notin Hashes
      <4>1. Head(inbox) \notin Specials
        BY <2>2, Commanded
      <4>2. QED
        BY <4>1 DEF Specials, BannerLines, Hashes
    <3>2. QED
      BY <2>1, <3>1 DEF Spoken, Hashes
  <2>6. HashShown'
    BY <1>2, <2>1, <2>2, <2>3, <2>5 DEF HashShown, Hashed, Has, Spoken, client
  <2>7. Privilege'
    BY <2>1, <2>2, <2>3 DEF Escalated, Privilege, EnableGiven, Spoken, client
  <2>8. Greeting'
    BY <1>2, <2>2 DEF Greeting, client
  <2>9. QED
    BY <2>4, <2>6, <2>7, <2>8 DEF Escalated
<1>10. CASE GiveUp
  <2>1. /\ mode = "password" /\ Says(<<"denied", "device>">>, "exec")
        /\ UNCHANGED <<client, late, inbox, secret, open>>
    BY <1>10 DEF GiveUp, Denied
  <2> DEFINE text == <<"denied", "device>">>
  <2>2. text \in Seq(Tokens) /\ \A j \in DOMAIN text : text[j] \notin Hashes
    BY StepsFacts DEF Specials, BannerLines, Hashes
  <2> HIDE DEF text
  <2>3. /\ \A i \in DOMAIN wire' :
              \/ i \in DOMAIN wire /\ wire'[i] = wire[i]
              \/ \E j \in DOMAIN text : wire'[i] = text[j]
        /\ mode' = "exec"
    BY <1>1, <2>1, <2>2, SaysAfter DEF text
  <2>4. Greeting'
    BY <1>2, <2>1 DEF Greeting, client
  <2>5. Sent' /\ Privilege'
    BY <2>1 DEF Escalated, Sent, Privilege, EnableGiven, client
  <2>6. HashShown'
    BY <1>2, <2>1, <2>2, <2>3 DEF HashShown, Hashed, Has, client
  <2>7. QED
    BY <2>4, <2>5, <2>6 DEF Escalated
<1>11. CASE Close
  <2>1. PICK n \in 0..Len(wire) : wire' = SubSeq(wire, 1, n)
    BY <1>11 DEF Close
  <2>2. inbox' = <<>> /\ UNCHANGED <<client, mode, secret>>
    BY <1>11 DEF Close
  <2>3. /\ \A i \in DOMAIN wire' : i \in DOMAIN wire /\ wire'[i] = wire[i]
        /\ Len(wire') \in Nat /\ Len(wire') <= Len(wire) /\ (wire = <<>> => wire' = <<>>)
    <3>1. wire' \in Seq(Tokens) /\ Len(wire') = n /\ \A i \in 1..n : wire'[i] = wire[i]
      BY <1>1, <2>1
    <3>2. DOMAIN wire = 1..Len(wire) /\ DOMAIN wire' = 1..n
      BY <1>1, <3>1
    <3>3. wire = <<>> => wire' = <<>>
      BY <1>1, <3>1, EmptySeq
    <3>4. QED
      BY <1>1, <3>1, <3>2, <3>3
  <2>4. Greeting'
    BY <1>2, <2>2, <2>3, GreetingKept DEF client
  <2>5. Hashed' => Hashed
    BY <2>2, <2>3 DEF Hashed, Has, client
  <2>6. QED
    BY <1>1, <1>2, <2>2, <2>4, <2>5, EscalatedKept DEF client
<1>12. CASE Expire \/ UNCHANGED vars
  <2>1. UNCHANGED <<client, device>>
    BY <1>12 DEF Expire, vars
  <2>2. Greeting'
    BY <1>1, <1>2, <2>1, GreetingKept DEF client, device
  <2>3. QED
    BY <1>1, <1>2, <2>1, <2>2, EscalatedKept DEF client, device, Hashed
<1>13. QED
  BY <1>4, <1>5, <1>6, <1>7, <1>8, <1>9, <1>10, <1>11, <1>12 DEF Next, ClientStep

LEMMA EscalatedCorrect ==
  ASSUME UnmisledBanner
  PROVE  Spec => []Escalated
<1>1. Init => Escalated
  <2> SUFFICES ASSUME Init PROVE Escalated
    OBVIOUS
  <2>1. /\ phase = "dial" /\ step = 1 /\ host = "" /\ mode # "password"
        /\ buf = <<>> /\ wire = <<>> /\ inbox = <<>> /\ ~(step >= 4)
    <3>1. /\ phase = "dial" /\ step = 1 /\ host = "" /\ mode # "password"
          /\ buf = <<>> /\ wire = <<>> /\ inbox = <<>>
      BY DEF Init
    <3>2. ~(1 >= 4)
      OBVIOUS
    <3>3. QED
      BY <3>1, <3>2
  <2>2. QED
    <3>1. Sent /\ HashShown /\ Privilege
      <4>1. Sent
        <5>1. DOMAIN <<>> = {}
          OBVIOUS
        <5>2. DOMAIN inbox = {}
          BY <2>1, <5>1
        <5>3. QED
          BY <5>2 DEF Sent
      <4>2. HashShown /\ Privilege
        BY <2>1 DEF HashShown, Privilege
      <4>3. QED
        BY <4>1, <4>2
    <3>2. Greeting
      BY <2>1 DEF Greeting
    <3>3. QED
      BY <3>1, <3>2 DEF Escalated
<1>2. TypeOK /\ Escalated /\ [Next]_vars => Escalated'
  BY EscalatedStep
<1>3. QED
  BY <1>1, <1>2, TypeCorrect, PTL DEF Spec

(***************************************************************************)
(* "parks at the privileged prompt" (Dial): where no line of the banner    *)
(* ends in "#" from the first that looks like a prompt on, whoever the     *)
(* device turns down and wherever the reads are cut, with an enable        *)
(* password in the row commands come to a privileged device.  With another *)
(* banner they need not: endsWithPrivileged takes such a line for the      *)
(* prompt of a device that is privileged already.                          *)
(***************************************************************************)
THEOREM ParkedCorrect ==
  ASSUME UnmisledBanner
  PROVE  Spec => []Parked
BY EscalatedImplies, EscalatedCorrect, TypeCorrect, PTL

---------------------------------------------------------------------------
(***************************************************************************)
(* Whose reply it is.  As long as the client is engaged, that is, has not  *)
(* been refused by its context and has dropped no chunk, all there is in   *)
(* the buffer, on the wire and in the inbox belongs to the command it is   *)
(* at: the command before was over when its prompt showed, and a prompt is *)
(* the last a device says.  Only the password dialogue may leave something *)
(* behind, and it ends with the one prompt that follows everything.        *)
(***************************************************************************)
\* No line of the banner looks like a prompt; rulers and text are left.
QuietBanner == \A i \in DOMAIN Banner : Banner[i] \notin Looked("")

Engaged == spilt = 0 /\ (phase = "read" \/ (phase \in {"write", "check"} /\ ~late))

Own == IF step = 1 THEN {"text", "####"} ELSE {Steps[step]}

Clear == buf = <<>> /\ wire = <<>> /\ inbox = <<>>

InReply ==
    /\ \A i \in DOMAIN buf : buf[i] \in Own
    /\ \A i \in DOMAIN wire : wire[i] \in Own \/ (wire[i] \in Prompts /\ i = Len(wire))
    /\ inbox = <<>> \/ (inbox = <<Steps[step]>> /\ buf = <<>> /\ wire = <<>>)

Dialling == phase = "dial" => step = 1 /\ Clear /\ mode # "password" /\ late \in BOOLEAN

LoggingIn == Engaged /\ step = 1 =>
    /\ phase # "write" /\ inbox = <<>>
    /\ Has(wire, {"device>"}) => mode # "privileged"

Enabling == Engaged /\ step = 2 =>
    /\ mode # "privileged"
    /\ phase = "write" => Clear /\ mode = "exec"
    /\ inbox = <<>> \/ (inbox = <<"enable">> /\ buf = <<>> /\ wire = <<>> /\ mode = "exec")

Proving == Engaged /\ step = 3 =>
    /\ phase = "write" => inbox = <<>> /\ mode # "privileged"
    /\ inbox = <<>> \/ (inbox = <<"secret">> /\ mode # "privileged")
    /\ mode = "privileged" =>
          \A i \in DOMAIN wire : wire[i] \in Hashes => i = Len(wire)

Replying == Engaged /\ step \notin {2, 3} =>
    mode # "password" /\ IF phase = "write" THEN Clear ELSE InReply

HostKnown == host = (IF step = 1 THEN "" ELSE "device")

Spilling == spilt <= step /\ (step = 1 => spilt = 0 \/ phase = "failed")

Closed == ~open => inbox = <<>>

Tracked ==
    /\ Dialling /\ LoggingIn /\ Enabling /\ Proving /\ Replying
    /\ HostKnown /\ Spilling /\ Closed

LEMMA TrackedInit == Init => Tracked
<1> SUFFICES ASSUME Init PROVE Tracked
  OBVIOUS
<1>1. /\ phase = "dial" /\ step = 1 /\ buf = <<>> /\ wire = <<>> /\ inbox = <<>> /\ spilt = 0
      /\ host = "" /\ mode # "password" /\ open = TRUE /\ late = FALSE
  BY DEF Init
<1>2. spilt <= step
  <2>1. 0 <= 1
    OBVIOUS
  <2>2. QED
    BY <1>1, <2>1
<1>3. Dialling /\ HostKnown /\ Spilling /\ Closed
  BY <1>1, <1>2 DEF Dialling, Clear, HostKnown, Spilling, Closed
<1>4. ~Engaged
  BY <1>1 DEF Engaged
<1>5. QED
  BY <1>3, <1>4 DEF Tracked, LoggingIn, Enabling, Proving, Replying

\* A client that is not engaged after the step owes nothing but the rest.
LEMMA NotEngaged ==
  ASSUME ~Engaged', phase' # "dial", HostKnown', Spilling', Closed'
  PROVE  Tracked'
BY DEF Tracked, Dialling, LoggingIn, Enabling, Proving, Replying

LEMMA StepCases ==
  /\ Steps[2] = "enable" /\ Steps[3] = "secret"
  /\ \A n \in DOMAIN Steps : n \notin {2, 3} => Steps[n] \notin {"enable", "secret"}
  /\ \A n \in DOMAIN Steps : Steps[n] \notin Prompts
<1>1. 2 \in DOMAIN Steps /\ 3 \in DOMAIN Steps
  BY StepsFacts
<1>2. QED
  BY <1>1, StepsFacts DEF Specials, BannerLines, Prompts

\* An error of a step that leaves device and context as they are.
LEMMA TrackedFail ==
  ASSUME TypeOK, Tracked, phase \in {"write", "check", "read"}, Fail,
         UNCHANGED <<late, inbox, mode, secret, open>>,
         \/ late /\ phase # "read" /\ spilt' = spilt
         \/ ~open /\ wire = <<>> /\ wire' = wire /\ spilt' = spilt
         \/ ~open /\ phase = "write" /\ wire' = wire /\ spilt' = spilt
         \/ spilt' = IF spilt = 0 THEN step ELSE spilt
  PROVE  Tracked'
<1>1. step \in Nat /\ step >= 1 /\ spilt \in Nat /\ spilt <= step
  <2>1. spilt \in Nat
    <3> DEFINE k == Len(Steps)
    <3>1. spilt \in 0..k /\ k \in Nat
      BY StepsFacts DEF TypeOK
    <3> HIDE DEF k
    <3>2. QED
      BY <3>1
  <2>2. QED
    BY <2>1, AtStep DEF Tracked, Spilling
<1>2. /\ host' = host /\ buf' = <<>>
      /\ \/ step <= 4 /\ phase' = "failed" /\ step' = step
         \/ step >= 5 /\ step' = step + 1 /\ phase' \in {"write", "answered"}
  BY AfterFail
<1>3. spilt' \in {spilt, step}
  OBVIOUS
<1>4. HostKnown'
  <2>1. step' = 1 <=> step = 1
    BY <1>1, <1>2
  <2>2. QED
    BY <1>2, <2>1 DEF Tracked, HostKnown
<1>5. Spilling'
  BY <1>1, <1>2, <1>3 DEF Tracked, Spilling
<1>6. Closed'
  BY DEF Tracked, Closed
<1>7. CASE ~Engaged'
  BY <1>2, <1>4, <1>5, <1>6, <1>7, NotEngaged
<1>8. CASE Engaged'
  <2>1. phase' = "write" /\ ~late /\ spilt' = 0
    BY <1>2, <1>8 DEF Engaged
  <2>2. spilt = 0 /\ ~open /\ wire' = wire /\ (wire = <<>> \/ phase = "write")
    BY <1>1, <2>1
  <2>3. step >= 5 /\ step' = step + 1 /\ inbox = <<>>
    BY <1>2, <2>1, <2>2 DEF Tracked, Closed
  <2>4. step \notin {2, 3} /\ step' \notin {1, 2, 3}
    BY <1>1, <2>3
  <2>5. Engaged
    BY <2>1, <2>2 DEF Engaged
  <2>6. mode # "password" /\ wire = <<>>
    BY <2>2, <2>4, <2>5 DEF Tracked, Replying, Clear
  <2>7. Clear' /\ mode' # "password"
    BY <1>2, <2>2, <2>3, <2>6 DEF Clear
  <2>8. Dialling' /\ LoggingIn' /\ Enabling' /\ Proving' /\ Replying'
    BY <2>1, <2>4, <2>7 DEF Dialling, LoggingIn, Enabling, Proving, Replying
  <2>9. QED
    BY <1>4, <1>5, <1>6, <2>8 DEF Tracked
<1>9. QED
  BY <1>7, <1>8

LEMMA TrackedDial ==
  ASSUME QuietBanner, TypeOK, Tracked, Dial
  PROVE  Tracked'
<1> DEFINE p == IF mode = "privileged" THEN "device#" ELSE "device>"  u == <<p>>
<1>1. /\ phase = "dial" /\ step = 1 /\ Clear /\ mode # "password"
      /\ UNCHANGED <<step, buf, host, spilt, late, inbox, mode, open>>
      /\ \/ phase' = "check" /\ wire' = Banner \o u
         \/ phase' = "failed" /\ wire' = wire
  BY DEF Tracked, Dialling, Dial
<1>2. p \in Prompts /\ (p = "device>" => mode # "privileged")
  BY DEF Prompts
<1> HIDE DEF p
<1>3. u \in Seq(Prompts) /\ Len(u) = 1 /\ u[1] = p
  BY <1>2
<1> HIDE DEF u
<1>4. HostKnown' /\ Spilling' /\ Closed'
  BY <1>1 DEF Tracked, HostKnown, Spilling, Closed
<1>5. CASE phase' = "failed"
  BY <1>4, <1>5, NotEngaged DEF Engaged
<1>6. CASE phase' = "check" /\ wire' = Banner \o u
  <2> DEFINE S == BannerLines
  <2>1. Banner \in Seq(S) /\ u \in Seq(S)
    <3>1. Prompts \subseteq S
      BY DEF Prompts, BannerLines
    <3>2. QED
      BY <1>3, <3>1, SessionAssumption, SeqMonotonic
  <2>2. \A i \in DOMAIN Banner : Banner[i] \in {"text", "####"}
    BY <2>1 DEF QuietBanner, Looked, Prompts, BannerLines
  <2> HIDE DEF S
  <2>3. /\ wire' \in Seq(S) /\ Len(wire') = Len(Banner) + 1 /\ Len(Banner) \in Nat
        /\ \A i \in 1..(Len(Banner) + 1) :
              wire'[i] = IF i <= Len(Banner) THEN Banner[i] ELSE u[i - Len(Banner)]
    <3>1. /\ wire' \in Seq(S) /\ Len(wire') = Len(Banner) + Len(u) /\ Len(Banner) \in Nat
          /\ \A i \in 1..(Len(Banner) + Len(u)) :
                wire'[i] = IF i <= Len(Banner) THEN Banner[i] ELSE u[i - Len(Banner)]
      BY <1>6, <2>1, ConcatProperties
    <3>2. QED
      BY <1>3, <3>1
  <2>4. DOMAIN wire' = 1..(Len(Banner) + 1) /\ DOMAIN Banner = 1..Len(Banner)
    BY <2>1, <2>3
  <2>5. \A i \in DOMAIN wire' : wire'[i] \in {"text", "####"} \/ (wire'[i] = p /\ i = Len(wire'))
    <3> SUFFICES ASSUME NEW i \in DOMAIN wire'
                 PROVE  wire'[i] \in {"text", "####"} \/ (wire'[i] = p /\ i = Len(wire'))
      OBVIOUS
    <3>1. CASE i <= Len(Banner)
      BY <2>2, <2>3, <2>4, <3>1
    <3>2. CASE i = Len(Banner) + 1
      BY <1>3, <2>3, <2>4, <3>2
    <3>3. QED
      BY <2>3, <2>4, <3>1, <3>2
  <2>6. InReply'
    BY <1>1, <1>2, <2>5 DEF InReply, Own, Clear
  <2>7. LoggingIn'
    BY <1>1, <1>2, <1>6, <2>5 DEF LoggingIn, Has, Clear
  <2>8. Dialling' /\ Enabling' /\ Proving' /\ Replying'
    BY <1>1, <1>6, <2>6 DEF Dialling, Enabling, Proving, Replying
  <2>9. QED
    BY <1>4, <2>7, <2>8 DEF Tracked
<1>7. QED
  BY <1>1, <1>5, <1>6

LEMMA TrackedWrite ==
  ASSUME TypeOK, Tracked, Write
  PROVE  Tracked'
<1>1. phase = "write" /\ UNCHANGED <<spilt, late, wire, mode, secret, open>>
  BY DEF Write
<1>2. CASE ~open
  <2>1. Fail /\ inbox' = inbox
    BY <1>2 DEF Write
  <2>2. QED
    BY <1>1, <1>2, <2>1, TrackedFail
<1>3. CASE open
  <2>1. /\ inbox' = Append(inbox, Steps[step]) /\ phase' = "check"
        /\ UNCHANGED <<step, buf, host, got>>
    BY <1>3 DEF Write
  <2>2. inbox = <<>> => inbox' = <<Steps[step]>>
    BY <2>1
  <2>3. HostKnown' /\ Spilling' /\ Closed'
    BY <1>1, <1>3, <2>1 DEF Tracked, HostKnown, Spilling, Closed
  <2>4. Engaged' => Engaged
    BY <1>1, <2>1 DEF Engaged
  <2>5. Dialling' /\ LoggingIn'
    BY <1>1, <2>1, <2>4 DEF Tracked, Dialling, LoggingIn
  <2>6. Enabling'
    BY <1>1, <2>1, <2>2, <2>4, StepCases DEF Tracked, Enabling, Clear
  <2>7. Proving'
    BY <1>1, <2>1, <2>2, <2>4, StepCases DEF Tracked, Proving
  <2>8. Replying'
    BY <1>1, <2>1, <2>2, <2>4 DEF Tracked, Replying, Clear, InReply
  <2>9. QED
    BY <2>3, <2>5, <2>6, <2>7, <2>8 DEF Tracked
<1>4. QED
  BY <1>2, <1>3

LEMMA TrackedCheck ==
  ASSUME TypeOK, Tracked, Check
  PROVE  Tracked'
<1>1. phase = "check" /\ UNCHANGED <<spilt, late, wire, inbox, mode, secret, open>>
  BY DEF Check, device
<1>2. CASE late
  <2>1. Fail
    BY <1>2 DEF Check
  <2>2. QED
    BY <1>1, <1>2, <2>1, TrackedFail
<1>3. CASE ~late
  <2>1. phase' = "read" /\ UNCHANGED <<step, buf, host, got>>
    BY <1>3 DEF Check
  <2>2. Engaged' => Engaged
    BY <1>1, <1>3, <2>1 DEF Engaged
  <2>3. HostKnown' /\ Spilling' /\ Closed'
    BY <1>1, <2>1 DEF Tracked, HostKnown, Spilling, Closed
  <2>4. Dialling' /\ LoggingIn' /\ Enabling' /\ Proving' /\ Replying'
    BY <1>1, <2>1, <2>2
       DEF Tracked, Dialling, LoggingIn, Enabling, Proving, Replying, InReply, Own, Has, Clear
  <2>5. QED
    BY <2>3, <2>4 DEF Tracked
<1>4. QED
  BY <1>2, <1>3

\* Where a mark is the last there is, whoever has read one has read everything.
LEMMA ReadMark ==
  ASSUME buf \in Seq(Tokens), wire \in Seq(Tokens), NEW n \in 1..Len(wire), NEW b, NEW T,
         b = buf \o SubSeq(wire, 1, n), wire' = SubSeq(wire, n + 1, Len(wire)),
         \A i \in DOMAIN wire : wire[i] \in T => i = Len(wire)
  PROVE  /\ \A i \in DOMAIN wire' : wire'[i] \in T => i = Len(wire')
         /\ ~Has(buf, T) /\ Has(b, T) => n = Len(wire) /\ wire' = <<>> /\ b[Len(b)] \in T
<1>1. Len(wire) \in Nat /\ n \in Nat /\ n >= 1 /\ n <= Len(wire)
  OBVIOUS
<1>2. /\ \A i \in DOMAIN wire' : n + i \in DOMAIN wire /\ wire'[i] = wire[n + i]
      /\ n = Len(wire) => wire' = <<>>
      /\ wire' \in Seq(Tokens) /\ Len(wire') = Len(wire) - n
  BY ReadRest
<1>3. b[Len(b)] = wire[n] /\ FromRead(n, b)
  BY ReadEnds, ReadItems
<1>4. ASSUME NEW i \in DOMAIN wire', wire'[i] \in T PROVE i = Len(wire')
  <2>1. n + i = Len(wire)
    BY <1>2, <1>4
  <2>2. i \in Nat
    BY <1>1, <1>2
  <2>3. QED
    BY <1>1, <1>2, <2>1, <2>2
<1>5. ASSUME ~Has(buf, T), Has(b, T) PROVE n = Len(wire) /\ b[Len(b)] \in T
  <2>1. PICK i \in DOMAIN b : b[i] \in T
    BY <1>5 DEF Has
  <2>2. PICK j \in 1..n : b[i] = wire[j]
    BY <1>3, <1>5, <2>1 DEF Has, FromRead
  <2>3. j \in DOMAIN wire /\ j <= n
    BY <1>1
  <2>4. j = Len(wire)
    BY <2>1, <2>2, <2>3
  <2>5. n = Len(wire)
    BY <1>1, <2>3, <2>4
  <2>6. QED
    BY <1>3, <2>1, <2>2, <2>4, <2>5
<1>6. QED
  BY <1>2, <1>4, <1>5

\* A login whose banner is quiet learns the name from the prompt.
LEMMA HostnameRead ==
  ASSUME NEW b \in Seq(Tokens), b # <<>>, b[Len(b)] \in Prompts,
         \A i \in DOMAIN b : b[i] \in {"text", "####"} \/ (b[i] \in Prompts /\ i = Len(b))
  PROVE  Hostname(b) = "device"
<1> DEFINE k == Len(b)  P(i) == b[i] \in Looked("") /\ ~Has(SubSeq(b, 1, i - 1), Looked(""))
<1>1. k \in Nat /\ k >= 1 /\ DOMAIN b = 1..k
  BY EmptySeq
<1>2. Looked("") = Prompts \union {"other>", "other#"}
  BY DEF Looked
<1>3. P(k)
  <2> DEFINE s == SubSeq(b, 1, k - 1)
  <2>1. DOMAIN s = 1..(k - 1) /\ \A i \in 1..(k - 1) : s[i] = b[i]
    BY <1>1, SubSeqProperties
  <2> HIDE DEF s
  <2>2. ASSUME NEW i \in DOMAIN s PROVE s[i] \in {"text", "####"}
    <3>1. i \in DOMAIN b /\ i # k /\ s[i] = b[i]
      BY <1>1, <2>1
    <3>2. QED
      BY <3>1
  <2>3. "text" \notin Looked("") /\ "####" \notin Looked("")
    BY <1>2 DEF Prompts
  <2>4. ~Has(s, Looked(""))
    BY <2>2, <2>3 DEF Has
  <2>5. QED
    BY <1>2, <2>4 DEF s
<1> DEFINE first == CHOOSE i \in DOMAIN b : P(i)
<1>4. first \in DOMAIN b /\ P(first)
  <2>1. k \in DOMAIN b
    BY <1>1
  <2> HIDE DEF k, P
  <2>2. QED
    BY <1>3, <2>1
<1>5. b[first] \in Prompts
  <2>1. first \in DOMAIN b /\ b[first] \in Looked("")
    BY <1>4
  <2> HIDE DEF first
  <2>2. QED
    BY <1>2, <2>1 DEF Prompts
<1>6. QED
  BY <1>5 DEF Hostname

\* The reply of the step that an engaged client is at, when its prompt shows.
LEMMA PromptShown ==
  ASSUME QuietBanner, TypeOK, Tracked, HashShown, phase = "read", Engaged,
         NEW n \in 1..Len(wire), NEW b, b = buf \o SubSeq(wire, 1, n),
         wire' = SubSeq(wire, n + 1, Len(wire)), Matches(b),
         step = 3 => EndsPrivileged(b)
  PROVE  /\ inbox = <<>> /\ (step # 2 => wire' = <<>>)
         /\ step \notin {2, 3} =>
              /\ b[Len(b)] \in Prompts
              /\ \A i \in DOMAIN b : b[i] \in Own \/ (b[i] \in Prompts /\ i = Len(b))
         /\ step = 3 => mode = "privileged"
<1>0. buf \in Seq(Tokens) /\ wire \in Seq(Tokens)
  BY DEF TypeOK
<1>1. /\ buf \in Seq(Tokens) /\ wire \in Seq(Tokens) /\ wire # <<>> /\ step \in DOMAIN Steps
      /\ Len(buf) \in Nat /\ n \in Nat /\ DOMAIN wire = 1..Len(wire) /\ DOMAIN buf = 1..Len(buf)
  <2>1. buf \in Seq(Tokens) /\ wire \in Seq(Tokens) /\ step \in DOMAIN Steps
    BY AtStep DEF TypeOK
  <2>2. QED
    BY <2>1, EmptySeq
<1>2. /\ b # <<>> /\ Len(b) \in Nat /\ Len(b) = Len(buf) + n /\ b[Len(b)] = wire[n]
      /\ FromRead(n, b) /\ Len(b) \in DOMAIN b
  <2>1. /\ b # <<>> /\ Len(b) \in Nat /\ Len(b) = Len(buf) + n /\ b[Len(b)] = wire[n]
        /\ Len(b) \in DOMAIN b
    BY <1>0, ReadEnds
  <2>2. FromRead(n, b)
    BY <1>0, ReadItems
  <2>3. QED
    BY <2>1, <2>2
<1>3. CASE step = 2
  BY <1>1, <1>3 DEF Tracked, Enabling
<1>4. CASE step = 3
  <2>1. wire[n] \in Hashes /\ n \in DOMAIN wire
    BY <1>1, <1>2, <1>4 DEF EndsPrivileged
  <2>2. mode = "privileged"
    BY <1>4, <2>1 DEF HashShown, Hashed, Has
  <2>3. n = Len(wire) /\ inbox = <<>>
    BY <1>4, <2>1, <2>2 DEF Tracked, Proving
  <2>4. SubSeq(wire, n + 1, Len(wire)) = <<>>
    BY <1>1, <2>3, ReadRest
  <2>5. QED
    BY <1>4, <2>2, <2>3, <2>4
<1>5. CASE step \notin {2, 3}
  <2>1. InReply
    BY <1>5 DEF Tracked, Replying
  <2>2. \A x \in Own : x \notin Looked("")
    <3>1. Looked("") = {"device>", "device#", "other>", "other#"}
      BY DEF Looked, Prompts
    <3>2. Steps[step] \notin Specials
      BY <1>1, StepsFacts
    <3>3. QED
      BY <3>1, <3>2 DEF Own, Specials, BannerLines
  <2> DEFINE T == Looked("")
  <2>3. Has(b, T)
    <3>1. Has(b, Looked(host))
      BY <1>1, <1>5, StepCases DEF Matches
    <3>2. Looked(host) \subseteq T
      BY DEF Tracked, HostKnown, Looked
    <3>3. QED
      BY <3>1, <3>2 DEF Has
  <2>4. ~Has(buf, T) /\ \A i \in DOMAIN wire : wire[i] \in T => i = Len(wire)
    BY <2>1, <2>2 DEF InReply, Has
  <2> HIDE DEF T
  <2>5. n = Len(wire) /\ wire' = <<>> /\ b[Len(b)] \in T
    BY <1>0, <2>3, <2>4, ReadMark
  <2>6. inbox = <<>>
    BY <1>1, <2>1 DEF InReply
  <2>7. ASSUME NEW i \in DOMAIN b PROVE b[i] \in Own \/ (b[i] \in Prompts /\ i = Len(b))
    <3>1. CASE i \in DOMAIN buf /\ b[i] = buf[i]
      BY <2>1, <3>1 DEF InReply
    <3>2. ASSUME NEW j \in 1..n, b[i] = wire[j], i = Len(buf) + j
          PROVE  b[i] \in Own \/ (b[i] \in Prompts /\ i = Len(b))
      <4>1. j \in DOMAIN wire
        BY <1>1, <2>5
      <4>2. wire[j] \in Own \/ (wire[j] \in Prompts /\ j = Len(wire))
        BY <2>1, <4>1 DEF InReply
      <4>3. QED
        BY <1>2, <2>5, <3>2, <4>2
    <3>3. QED
      BY <1>2, <3>1, <3>2 DEF FromRead
  <2>8. b[Len(b)] \in Prompts
    BY <1>2, <2>2, <2>5, <2>7 DEF T
  <2>9. QED
    BY <1>5, <2>5, <2>6, <2>7, <2>8
<1>6. QED
  BY <1>3, <1>4, <1>5

LEMMA TrackedAccept ==
  ASSUME QuietBanner, TypeOK, Tracked, HashShown, phase = "read",
         NEW n \in 1..Len(wire), NEW b, b = buf \o SubSeq(wire, 1, n),
         wire' = SubSeq(wire, n + 1, Len(wire)), Matches(b), Accept(b), spilt' = spilt,
         UNCHANGED <<late, inbox, mode, secret, open>>
  PROVE  Tracked'
<1>1. step \in DOMAIN Steps /\ step \in Nat /\ step >= 1
  BY AtStep
<1>2. spilt \in Nat /\ spilt <= step
  <2>1. spilt \in Nat
    <3> DEFINE k == Len(Steps)
    <3>1. spilt \in 0..k /\ k \in Nat
      BY StepsFacts DEF TypeOK
    <3> HIDE DEF k
    <3>2. QED
      BY <3>1
  <2>2. QED
    BY <2>1 DEF Tracked, Spilling
<1>3. Closed'
  BY DEF Tracked, Closed
<1>4. CASE step = 3 /\ Fail
  <2>1. phase' = "failed" /\ step' = step /\ host' = host
    BY <1>1, <1>4, AfterFail
  <2>2. HostKnown' /\ Spilling'
    BY <2>1 DEF Tracked, HostKnown, Spilling
  <2>3. QED
    BY <1>3, <2>1, <2>2, NotEngaged DEF Engaged
<1>5. CASE ~(step = 3 /\ Fail)
  <2>1. /\ buf' = <<>> /\ phase' \in {"write", "answered"}
        /\ host' = IF step = 1 THEN Hostname(b) ELSE host
        /\ \/ step' = step + 1
           \/ step' = 4 /\ step = 1
        /\ step = 1 /\ step' = step + 1 => ~EndsPrivileged(b)
        /\ step = 3 => EndsPrivileged(b)
    BY <1>5, AfterAccept
  <2>2. step' \in Nat /\ step' # 1 /\ step' > step
    BY <1>1, <2>1
  <2>3. Spilling'
    BY <1>1, <1>2, <2>2 DEF Spilling
  <2>4. step = 1 => Engaged
    BY DEF Tracked, Spilling, Engaged
  <2>5. Engaged =>
          /\ inbox = <<>> /\ (step # 2 => wire' = <<>>)
          /\ step \notin {2, 3} =>
               /\ b[Len(b)] \in Prompts
               /\ \A i \in DOMAIN b : b[i] \in Own \/ (b[i] \in Prompts /\ i = Len(b))
          /\ step = 3 => mode = "privileged"
    BY <2>1, PromptShown
  <2>6. step = 1 => Hostname(b) = "device"
    <3>1. b \in Seq(Tokens) /\ b # <<>>
      <4>1. buf \in Seq(Tokens) /\ wire \in Seq(Tokens)
        BY DEF TypeOK
      <4>2. QED
        BY <4>1, ReadEnds
    <3>2. ASSUME step = 1
          PROVE  /\ b[Len(b)] \in Prompts
                 /\ \A i \in DOMAIN b : b[i] \in {"text", "####"} \/ (b[i] \in Prompts /\ i = Len(b))
      <4>1. Own = {"text", "####"} /\ step \notin {2, 3}
        BY <3>2 DEF Own
      <4>2. QED
        BY <2>4, <2>5, <3>2, <4>1
    <3>3. QED
      BY <3>1, <3>2, HostnameRead
  <2>7. HostKnown'
    BY <2>1, <2>2, <2>6 DEF Tracked, HostKnown
  <2>8. CASE ~Engaged'
    BY <1>3, <2>1, <2>3, <2>7, <2>8, NotEngaged
  <2>9. CASE Engaged'
    <3>1. Engaged /\ phase' = "write" /\ inbox' = <<>>
      <4>1. Engaged
        BY <2>9 DEF Engaged
      <4>2. QED
        BY <2>1, <2>5, <2>9, <4>1 DEF Engaged
    <3>2. CASE step = 1
      <4>1. mode # "password" /\ Clear' /\ step' \in {2, 4}
        BY <2>1, <2>5, <3>1, <3>2 DEF Tracked, Replying, Clear
      <4>2. step' = 2 => mode = "exec"
        <5> SUFFICES ASSUME step' = 2 PROVE mode = "exec"
          OBVIOUS
        <5>1. b[Len(b)] = "device>"
          BY <2>1, <2>5, <3>1, <3>2 DEF EndsPrivileged, Prompts, Hashes
        <5>2. wire[n] = "device>" /\ n \in DOMAIN wire
          <6>1. buf \in Seq(Tokens) /\ wire \in Seq(Tokens)
            BY DEF TypeOK
          <6>2. b[Len(b)] = wire[n]
            BY <6>1, ReadEnds
          <6>3. QED
            BY <5>1, <6>1, <6>2
        <5>3. mode # "privileged"
          BY <3>1, <3>2, <5>2 DEF Tracked, LoggingIn, Has
        <5>4. QED
          BY <4>1, <5>3 DEF TypeOK
      <4>3. Dialling' /\ LoggingIn' /\ Enabling' /\ Proving' /\ Replying'
        BY <3>1, <4>1, <4>2 DEF Dialling, LoggingIn, Enabling, Proving, Replying
      <4>4. QED
        BY <1>3, <2>3, <2>7, <4>3 DEF Tracked
    <3>3. CASE step = 2
      <4>1. step' = 3 /\ mode # "privileged"
        BY <2>1, <3>1, <3>3 DEF Tracked, Enabling
      <4>2. Dialling' /\ LoggingIn' /\ Enabling' /\ Proving' /\ Replying'
        BY <3>1, <4>1 DEF Dialling, LoggingIn, Enabling, Proving, Replying
      <4>3. QED
        BY <1>3, <2>3, <2>7, <4>2 DEF Tracked
    <3>4. CASE step # 1 /\ step # 2
      <4>1. step' \notin {1, 2, 3} /\ Clear'
        BY <1>1, <2>1, <2>5, <3>1, <3>4 DEF Clear
      <4>2. mode # "password"
        BY <2>5, <3>1, <3>4 DEF Tracked, Replying
      <4>3. Dialling' /\ LoggingIn' /\ Enabling' /\ Proving' /\ Replying'
        BY <3>1, <4>1, <4>2 DEF Dialling, LoggingIn, Enabling, Proving, Replying
      <4>4. QED
        BY <1>3, <2>3, <2>7, <4>3 DEF Tracked
    <3>5. QED
      BY <3>2, <3>3, <3>4
  <2>10. QED
    BY <2>8, <2>9
<1>6. QED
  BY <1>4, <1>5

\* A chunk without a prompt is one more piece of the reply.
LEMMA TrackedMore ==
  ASSUME TypeOK, Tracked, phase = "read",
         NEW n \in 1..Len(wire), NEW b, b = buf \o SubSeq(wire, 1, n),
         wire' = SubSeq(wire, n + 1, Len(wire)), ~Matches(b), phase' = "check", buf' = b,
         UNCHANGED <<step, host, got, spilt, late, inbox, mode, secret, open>>
  PROVE  Tracked'
<1>0. buf \in Seq(Tokens) /\ wire \in Seq(Tokens)
  BY DEF TypeOK
<1>1. HostKnown' /\ Spilling' /\ Closed'
  BY DEF Tracked, HostKnown, Spilling, Closed
<1>2. CASE ~Engaged'
  BY <1>1, <1>2, NotEngaged
<1>3. CASE Engaged'
  <2>1. Engaged /\ wire # <<>> /\ step \in DOMAIN Steps
    <3>1. Engaged
      BY <1>3 DEF Engaged
    <3>2. wire # <<>>
      BY <1>0, EmptySeq
    <3>3. QED
      BY <3>1, <3>2, AtStep
  <2>2. FromRead(n, b)
    BY <1>0, ReadItems
  <2>3. \A i \in DOMAIN wire' : n + i \in DOMAIN wire /\ wire'[i] = wire[n + i]
    BY <1>0, ReadRest
  <2>6. ASSUME NEW T, \A i \in DOMAIN wire : wire[i] \in T => i = Len(wire)
        PROVE  \A i \in DOMAIN wire' : wire'[i] \in T => i = Len(wire')
    BY <1>0, <2>6, ReadMark
  <2>7. CASE step = 2
    <3>1. mode # "privileged" /\ inbox = <<>>
      BY <2>1, <2>7 DEF Tracked, Enabling
    <3>2. Dialling' /\ LoggingIn' /\ Enabling' /\ Proving' /\ Replying'
      BY <2>7, <3>1 DEF Dialling, LoggingIn, Enabling, Proving, Replying
    <3>3. QED
      BY <1>1, <3>2 DEF Tracked
  <2>8. CASE step = 3
    <3>1. /\ inbox = <<>> \/ (inbox = <<"secret">> /\ mode # "privileged")
          /\ mode = "privileged" =>
                \A i \in DOMAIN wire : wire[i] \in Hashes => i = Len(wire)
      BY <2>1, <2>8 DEF Tracked, Proving
    <3>2. mode = "privileged" =>
            \A i \in DOMAIN wire' : wire'[i] \in Hashes => i = Len(wire')
      BY <2>6, <3>1
    <3>3. Dialling' /\ LoggingIn' /\ Enabling' /\ Proving' /\ Replying'
      BY <2>8, <3>1, <3>2 DEF Dialling, LoggingIn, Enabling, Proving, Replying
    <3>4. QED
      BY <1>1, <3>3 DEF Tracked
  <2>9. CASE step \notin {2, 3}
    <3>1. InReply /\ inbox = <<>> /\ mode # "password"
      BY <2>1, <2>9 DEF Tracked, Replying, InReply
    <3>2. Own' = Own
      BY DEF Own
    <3>3. \A i \in DOMAIN wire : wire[i] \in Own \/ wire[i] \in Prompts
      BY <3>1 DEF InReply
    <3>4. Prompts \subseteq Looked(host)
      BY DEF Tracked, HostKnown, Looked
    <3>5. ~Has(b, Prompts)
      <4>1. ~Has(b, Looked(host))
        BY <2>1, <2>9, StepCases DEF Matches
      <4>2. QED
        BY <3>4, <4>1 DEF Has
    <3>6. \A i \in DOMAIN b : b[i] \in Own
      <4> SUFFICES ASSUME NEW i \in DOMAIN b PROVE b[i] \in Own
        OBVIOUS
      <4>1. b[i] \notin Prompts
        BY <3>5 DEF Has
      <4>2. CASE i \in DOMAIN buf /\ b[i] = buf[i]
        BY <3>1, <4>2 DEF InReply
      <4>3. ASSUME NEW j \in 1..n, b[i] = wire[j] PROVE b[i] \in Own
        <5>1. j \in DOMAIN wire
          BY <1>0
        <5>2. QED
          BY <3>3, <4>1, <4>3, <5>1
      <4>4. QED
        BY <2>2, <4>2, <4>3 DEF FromRead
    <3>7. \A i \in DOMAIN wire' : wire'[i] \in Prompts => i = Len(wire')
      <4>1. \A i \in DOMAIN wire : wire[i] \in Prompts => i = Len(wire)
        <5>1. \A x \in Own : x \notin Prompts
          BY <2>1, StepCases DEF Own, Prompts
        <5>2. QED
          BY <3>1, <5>1 DEF InReply
      <4>2. QED
        BY <2>6, <4>1
    <3>8. InReply'
      BY <2>3, <3>1, <3>2, <3>3, <3>6, <3>7 DEF InReply
    <3>9. LoggingIn'
      BY <2>1, <2>3, <3>1 DEF Tracked, LoggingIn, Has
    <3>10. Dialling' /\ Enabling' /\ Proving' /\ Replying'
      BY <2>9, <3>1, <3>8 DEF Dialling, Enabling, Proving, Replying
    <3>11. QED
      BY <1>1, <3>9, <3>10 DEF Tracked
  <2>10. QED
    BY <2>7, <2>8, <2>9
<1>4. QED
  BY <1>2, <1>3

LEMMA TrackedRead ==
  ASSUME QuietBanner, TypeOK, Tracked, HashShown, ReadChunk
  PROVE  Tracked'
<1>1. buf \in Seq(Tokens) /\ wire \in Seq(Tokens)
  BY DEF TypeOK
<1>0. PICK n, b : ReadAs(n, b)
  BY <1>1, AfterRead
<1>2. /\ n \in 1..Len(wire)
      /\ phase = "read" /\ b = buf \o SubSeq(wire, 1, n)
      /\ wire' = SubSeq(wire, n + 1, Len(wire))
      /\ UNCHANGED <<late, inbox, mode, secret, open>>
      /\ \/ Fail /\ spilt' = (IF spilt = 0 THEN step ELSE spilt)
         \/ Accept(b) /\ Matches(b) /\ spilt' = spilt
         \/ /\ ~Matches(b) /\ (Len(b) <= Cap \/ Steps[step] = "enable")
            /\ phase' = "check" /\ buf' = b /\ UNCHANGED <<step, host, got, spilt>>
  BY <1>0 DEF ReadAs
<1>3. CASE Fail /\ spilt' = (IF spilt = 0 THEN step ELSE spilt)
  BY <1>2, <1>3, TrackedFail
<1>4. CASE Accept(b) /\ Matches(b) /\ spilt' = spilt
  BY <1>2, <1>4, TrackedAccept
<1>5. CASE ~Matches(b) /\ phase' = "check" /\ buf' = b /\ UNCHANGED <<step, host, got, spilt>>
  BY <1>2, <1>5, TrackedMore
<1>6. QED
  BY <1>2, <1>3, <1>4, <1>5

LEMMA TrackedReply ==
  ASSUME TypeOK, Tracked, HashShown, Reply
  PROVE  Tracked'
<1>1. PICK text, m : Says(text, m) /\ Spoken(Head(inbox), text, m)
  BY AfterReply
<1>2. inbox # <<>> /\ inbox' = Tail(inbox) /\ open /\ UNCHANGED <<client, late, secret, open>>
  BY AfterReply
<1>3. wire \in Seq(Tokens)
  BY DEF TypeOK
<1>4. /\ Len(wire') = Len(wire) + Len(text) /\ mode' = m
      /\ \A i \in DOMAIN wire' :
            \/ i \in DOMAIN wire /\ wire'[i] = wire[i]
            \/ \E j \in DOMAIN text : wire'[i] = text[j] /\ i = Len(wire) + j
      /\ wire = <<>> => wire' = text
  BY <1>1, <1>3, SaysAfter DEF Spoken
<1>5. HostKnown' /\ Spilling' /\ Closed'
  BY <1>2 DEF Tracked, HostKnown, Spilling, Closed, client
<1>6. phase # "dial"
  BY <1>2 DEF Tracked, Dialling, Clear
<1>7. \A c : inbox = <<c>> => inbox' = <<>> /\ Head(inbox) = c
  BY <1>2
<1>8. CASE ~Engaged
  BY <1>2, <1>5, <1>6, <1>8, NotEngaged DEF Engaged, client
<1>9. CASE Engaged
  <2>1. step # 1
    BY <1>2, <1>9 DEF Tracked, LoggingIn
  <2>2. CASE step = 2
    <3>1. inbox = <<"enable">> /\ mode = "exec" /\ phase # "write"
      BY <1>2, <1>9, <2>2 DEF Tracked, Enabling, Clear
    <3>2. inbox' = <<>> /\ m # "privileged"
      BY <1>1, <1>7, <3>1 DEF Spoken
    <3>3. Dialling' /\ LoggingIn' /\ Enabling' /\ Proving' /\ Replying'
      BY <1>2, <1>4, <1>6, <2>2, <3>1, <3>2
         DEF Dialling, LoggingIn, Enabling, Proving, Replying, client
    <3>4. QED
      BY <1>5, <3>3 DEF Tracked
  <2>3. CASE step = 3
    <3>1. inbox = <<"secret">> /\ mode # "privileged" /\ phase # "write"
      BY <1>2, <1>9, <2>3 DEF Tracked, Proving
    <3>2. inbox' = <<>>
      BY <1>7, <3>1
    <3>3. ASSUME NEW i \in DOMAIN wire', wire'[i] \in Hashes PROVE i = Len(wire')
      <4>1. ~(i \in DOMAIN wire /\ wire[i] \in Hashes)
        BY <2>3, <3>1 DEF HashShown, Hashed, Has
      <4>2. PICK j \in DOMAIN text : text[j] \in Hashes /\ i = Len(wire) + j
        BY <1>4, <3>3, <4>1
      <4>3. Head(inbox) \notin Hashes
        <5>1. Head(inbox) \notin Specials
          BY <1>2, Commanded
        <5>2. QED
          BY <5>1 DEF Specials, BannerLines, Hashes
      <4>4. text[j] = "device#"
        BY <1>1, <4>2, <4>3 DEF Spoken, Hashes
      <4>5. QED
        BY <1>1, <1>4, <4>2, <4>4 DEF Spoken
    <3>4. Dialling' /\ LoggingIn' /\ Enabling' /\ Proving' /\ Replying'
      BY <1>2, <1>6, <2>3, <3>1, <3>2, <3>3
         DEF Dialling, LoggingIn, Enabling, Proving, Replying, client
    <3>5. QED
      BY <1>5, <3>4 DEF Tracked
  <2>4. CASE step \notin {2, 3}
    <3>1. /\ inbox = <<Steps[step]>> /\ buf = <<>> /\ wire = <<>> /\ phase # "write"
          /\ mode # "password"
      BY <1>2, <1>9, <2>4 DEF Tracked, Replying, Clear, InReply
    <3>2. inbox' = <<>> /\ Head(inbox) = Steps[step] /\ wire' = text
      BY <1>4, <1>7, <3>1
    <3>3. Steps[step] # "enable" /\ Own' = {Steps[step]}
      <4>1. step \in DOMAIN Steps
        BY <1>9, AtStep DEF Engaged
      <4>2. QED
        BY <1>2, <2>1, <2>4, <4>1, StepCases DEF Own, client
    <3>4. /\ m = mode
          /\ \A i \in DOMAIN text : text[i] = Steps[step] \/ (text[i] \in Prompts /\ i = Len(text))
      BY <1>1, <3>1, <3>2, <3>3 DEF Spoken
    <3>5. InReply'
      BY <1>2, <3>1, <3>2, <3>3, <3>4 DEF InReply, client
    <3>6. Dialling' /\ LoggingIn' /\ Enabling' /\ Proving' /\ Replying'
      BY <1>2, <1>4, <1>6, <2>1, <2>4, <3>1, <3>4, <3>5
         DEF Dialling, LoggingIn, Enabling, Proving, Replying, client
    <3>7. QED
      BY <1>5, <3>6 DEF Tracked
  <2>5. QED
    BY <2>2, <2>3, <2>4
<1>10. QED
  BY <1>8, <1>9

LEMMA TrackedGiveUp ==
  ASSUME TypeOK, Tracked, GiveUp
  PROVE  Tracked'
<1>1. /\ mode = "password" /\ mode' = "exec"
      /\ UNCHANGED <<client, late, inbox, secret, open>>
  BY DEF GiveUp, Denied, Says
<1>2. HostKnown' /\ Spilling' /\ Closed'
  BY <1>1 DEF Tracked, HostKnown, Spilling, Closed, client
<1>3. phase # "dial"
  BY <1>1 DEF Tracked, Dialling
<1>4. CASE ~Engaged
  BY <1>1, <1>2, <1>3, <1>4, NotEngaged DEF Engaged, client
<1>5. CASE Engaged
  <2>1. step \in {2, 3}
    BY <1>1, <1>5 DEF Tracked, Replying
  <2>2. step = 2 => phase # "write" /\ inbox = <<>>
    BY <1>1, <1>5 DEF Tracked, Enabling
  <2>3. step = 3 => (phase = "write" => inbox = <<>>) /\ (inbox = <<>> \/ inbox = <<"secret">>)
    BY <1>5 DEF Tracked, Proving
  <2>4. Dialling' /\ LoggingIn' /\ Enabling' /\ Proving' /\ Replying'
    BY <1>1, <1>3, <2>1, <2>2, <2>3
       DEF Dialling, LoggingIn, Enabling, Proving, Replying, client
  <2>5. QED
    BY <1>2, <2>4 DEF Tracked
<1>6. QED
  BY <1>4, <1>5

LEMMA TrackedClose ==
  ASSUME TypeOK, Tracked, Close
  PROVE  Tracked'
<1>1. PICK k \in 0..Len(wire) : wire' = SubSeq(wire, 1, k)
  BY DEF Close
<1>2. inbox' = <<>> /\ UNCHANGED <<client, late, mode, secret>>
  BY DEF Close
<1>3. /\ \A i \in DOMAIN wire' : i \in DOMAIN wire /\ wire'[i] = wire[i]
      /\ \A i \in DOMAIN wire' : i = Len(wire) => i = Len(wire')
      /\ wire = <<>> => wire' = <<>>
  <2>0. wire \in Seq(Tokens)
    BY DEF TypeOK
  <2>1. wire \in Seq(Tokens) /\ Len(wire) \in Nat
    BY <2>0
  <2>2. wire' \in Seq(Tokens) /\ Len(wire') = k /\ \A i \in 1..k : wire'[i] = wire[i]
    BY <1>1, <2>1
  <2>3. DOMAIN wire = 1..Len(wire) /\ DOMAIN wire' = 1..k
    BY <2>1, <2>2
  <2>4. wire = <<>> => wire' = <<>>
    BY <2>1, <2>2, EmptySeq
  <2>5. QED
    BY <2>1, <2>2, <2>3, <2>4
<1>4. HostKnown' /\ Spilling' /\ Closed'
  BY <1>2 DEF Tracked, HostKnown, Spilling, Closed, client
<1>5. Dialling'
  BY <1>2, <1>3 DEF Tracked, Dialling, Clear, client
<1>6. Engaged' <=> Engaged
  BY <1>2 DEF Engaged, client
<1>7. LoggingIn'
  BY <1>2, <1>3, <1>6 DEF Tracked, LoggingIn, Has, client
<1>8. Enabling'
  BY <1>2, <1>3, <1>6 DEF Tracked, Enabling, Clear, client
<1>9. Proving'
  BY <1>2, <1>3, <1>6 DEF Tracked, Proving, client
<1>10. Replying'
  BY <1>2, <1>3, <1>6 DEF Tracked, Replying, Clear, InReply, Own, client
<1>11. QED
  BY <1>4, <1>5, <1>7, <1>8, <1>9, <1>10 DEF Tracked

LEMMA TrackedStep ==
  ASSUME QuietBanner, TypeOK, Tracked, Escalated, [Next]_vars
  PROVE  Tracked'
<1>1. HashShown
  BY DEF Escalated
<1>2. CASE Dial
  BY <1>2, TrackedDial
<1>3. CASE Write
  BY <1>3, TrackedWrite
<1>4. CASE Check
  BY <1>4, TrackedCheck
<1>5. CASE ReadChunk
  BY <1>1, <1>5, TrackedRead
<1>6. CASE ReadEnd
  BY <1>6, TrackedFail DEF ReadEnd, device
<1>7. CASE Reply
  BY <1>1, <1>7, TrackedReply
<1>8. CASE GiveUp
  BY <1>8, TrackedGiveUp
<1>9. CASE Close
  BY <1>9, TrackedClose
<1>10. CASE Expire \/ UNCHANGED vars
  <2>1. UNCHANGED <<client, device>> /\ (late' = late \/ late')
    BY <1>10 DEF Expire, vars
  <2>2. HostKnown' /\ Spilling' /\ Closed'
    BY <2>1 DEF Tracked, HostKnown, Spilling, Closed, client, device
  <2>3. Engaged' => Engaged
    BY <2>1 DEF Engaged, client
  <2>4. late' \in BOOLEAN
    BY <1>10 DEF Expire, vars, TypeOK
  <2>5. Dialling' /\ LoggingIn' /\ Enabling' /\ Proving' /\ Replying'
    BY <2>1, <2>3, <2>4
       DEF Tracked, Dialling, LoggingIn, Enabling, Proving, Replying, InReply, Own, Has, Clear,
           client, device
  <2>6. QED
    BY <2>2, <2>5 DEF Tracked
<1>11. QED
  BY <1>2, <1>3, <1>4, <1>5, <1>6, <1>7, <1>8, <1>9, <1>10 DEF Next, ClientStep

LEMMA QuietIsUnmisled == QuietBanner => UnmisledBanner
BY DEF QuietBanner, UnmisledBanner

LEMMA TrackedCorrect ==
  ASSUME QuietBanner
  PROVE  Spec => []Tracked
<1>1. TypeOK /\ Tracked /\ Escalated /\ [Next]_vars => Tracked'
  BY TrackedStep
<1>2. QED
  BY <1>1, TrackedInit, TypeCorrect, EscalatedCorrect, QuietIsUnmisled, PTL DEF Spec

\* The reply of the n-th step is b, which a read of k tokens has made complete.
ReplyTaken(n, k, b) ==
    /\ k \in 1..Len(wire) /\ b = buf \o SubSeq(wire, 1, k)
    /\ wire' = SubSeq(wire, k + 1, Len(wire)) /\ inbox' = inbox
    /\ Matches(b) /\ (step = 3 => EndsPrivileged(b))
    /\ \A x \in got'[n] : \E i \in DOMAIN b : x = b[i]

\* Blocks are filled when a prompt shows or an error ends the wait for it.
LEMMA GotStep ==
  ASSUME TypeOK, [Next]_vars, NEW n \in DOMAIN Steps
  PROVE  /\ step' \in Nat /\ step' >= step /\ (spilt' = spilt \/ spilt = 0)
         /\ \/ got'[n] \in {got[n], {"error"}}
            \/ /\ n = step /\ phase = "read" /\ spilt' = spilt /\ step' > step
               /\ \E k, b : ReplyTaken(n, k, b)
<1> DEFINE Goal == /\ step' \in Nat /\ step' >= step /\ (spilt' = spilt \/ spilt = 0)
                   /\ got'[n] \in {got[n], {"error"}}
<1>1. step \in Nat
  BY StepIsNat
<1>2. DOMAIN got = DOMAIN Steps /\ buf \in Seq(Tokens) /\ wire \in Seq(Tokens)
  BY DEF TypeOK
<1>3. ASSUME phase # "answered", Fail, spilt' = spilt \/ spilt = 0 PROVE Goal
  BY <1>1, <1>2, <1>3, AfterFail
<1>4. ASSUME UNCHANGED <<step, got, spilt>> PROVE Goal
  BY <1>1, <1>4
<1>5. CASE Dial \/ Reply \/ GiveUp \/ Close \/ Expire \/ UNCHANGED vars
  <2>1. UNCHANGED <<step, got, spilt>>
    BY <1>5 DEF Dial, Reply, GiveUp, Close, Expire, vars, client
  <2>2. QED
    BY <1>4, <2>1
<1>6. CASE Write \/ Check \/ ReadEnd
  <2>1. phase # "answered" /\ spilt' = spilt /\ (Fail \/ UNCHANGED <<step, got>>)
    BY <1>6 DEF Write, Check, ReadEnd
  <2>2. QED
    BY <1>3, <1>4, <2>1
<1>7. CASE ReadChunk
  <2>0. PICK k, b : ReadAs(k, b)
    BY <1>2, <1>7, AfterRead
  <2>1. /\ k \in 1..Len(wire)
        /\ phase = "read" /\ b = buf \o SubSeq(wire, 1, k)
        /\ wire' = SubSeq(wire, k + 1, Len(wire))
        /\ UNCHANGED <<late, inbox, mode, secret, open>>
        /\ \/ Fail /\ spilt' = (IF spilt = 0 THEN step ELSE spilt)
           \/ Accept(b) /\ Matches(b) /\ spilt' = spilt
           \/ /\ ~Matches(b) /\ (Len(b) <= Cap \/ Steps[step] = "enable")
              /\ phase' = "check" /\ buf' = b /\ UNCHANGED <<step, host, got, spilt>>
    BY <2>0 DEF ReadAs
  <2>2. CASE Fail
    BY <1>3, <2>1, <2>2
  <2>3. CASE UNCHANGED <<step, got, spilt>>
    BY <1>4, <2>3
  <2>4. CASE ~Fail /\ Accept(b) /\ Matches(b) /\ spilt' = spilt
    <3>1. /\ got' = [got EXCEPT ![step] = {b[i] : i \in DOMAIN b}]
          /\ (step' = step + 1 \/ (step' = 4 /\ step = 1))
          /\ (step = 3 => EndsPrivileged(b))
      <4>1. phase # "answered" /\ Accept(b) /\ ~Fail
        BY <2>1, <2>4
      <4>2. QED
        BY <4>1, AfterAccept
    <3>2. step' \in Nat /\ step' > step
      BY <1>1, <3>1
    <3>3. CASE n # step
      BY <1>1, <1>2, <2>4, <3>1, <3>2, <3>3
    <3>4. CASE n = step
      <4>1. \A x \in got'[n] : \E i \in DOMAIN b : x = b[i]
        BY <1>2, <3>1, <3>4
      <4>2. ReplyTaken(n, k, b) /\ phase = "read"
        BY <2>1, <2>4, <3>1, <4>1 DEF ReplyTaken
      <4>3. \E kk, bb : ReplyTaken(n, kk, bb)
        BY <4>2
      <4>4. /\ step' \in Nat /\ step' >= step /\ (spilt' = spilt \/ spilt = 0)
            /\ n = step /\ phase = "read" /\ spilt' = spilt /\ step' > step
        BY <1>1, <2>4, <3>2, <3>4, <4>2
      <4>5. QED
        BY <4>3, <4>4
    <3>5. QED
      BY <3>3, <3>4
  <2>5. QED
    BY <2>1, <2>2, <2>3, <2>4
<1>8. QED
  BY <1>5, <1>6, <1>7 DEF Next, ClientStep

\* Nothing comes of a command that the client is past.
Past(n) ==
    n < step /\ ~Has(wire, {Steps[n]}) /\ ~Has(inbox, {Steps[n]})

LEMMA StaysPast ==
  ASSUME TypeOK, Tracked, [Next]_vars, NEW n \in DOMAIN Steps, Past(n)
  PROVE  Past(n)'
<1> DEFINE c == Steps[n]
<1>1. step \in Nat /\ n \in Nat /\ n < step'
  <2>1. step \in Nat /\ n \in Nat /\ n < step /\ step' \in Nat /\ step' >= step
    BY StepIsNat, GotStep DEF Past
  <2>2. QED
    BY <2>1
<1>2. c \in Tokens \ Specials
  BY StepsFacts
<1>3. buf \in Seq(Tokens) /\ wire \in Seq(Tokens) /\ inbox \in Seq({Steps[m] : m \in DOMAIN Steps})
  BY DEF TypeOK
<1>4. ~Has(wire, {c}) /\ ~Has(inbox, {c})
  BY DEF Past
<1> HIDE DEF c
<1>5. ASSUME \A i \in DOMAIN wire' : wire'[i] # c, \A i \in DOMAIN inbox' : inbox'[i] # c
      PROVE  Past(n)'
  BY <1>1, <1>5 DEF Past, Has, c
<1>6. CASE Dial
  <2>1. step = 1 /\ n >= 1
    BY <1>6, StepsFacts DEF Dial, Tracked, Dialling
  <2>2. QED
    BY <1>1, <2>1 DEF Past
<1>7. CASE Write
  <2>1. wire' = wire /\ (inbox' = inbox \/ (inbox' = Append(inbox, Steps[step]) /\ phase = "write"))
    BY <1>7 DEF Write
  <2>2. CASE inbox' = inbox
    BY <1>4, <1>5, <2>1, <2>2 DEF Has
  <2>3. CASE inbox' = Append(inbox, Steps[step]) /\ phase = "write"
    <3>1. step \in DOMAIN Steps /\ step # n
      BY <1>1, <2>3, AtStep DEF Past
    <3>2. Steps[step] # c
      BY <3>1, StepsFacts DEF c
    <3>3. \A i \in DOMAIN inbox' :
             (i \in DOMAIN inbox /\ inbox'[i] = inbox[i]) \/ inbox'[i] = Steps[step]
      <4> DEFINE S == {Steps[m] : m \in DOMAIN Steps}
      <4>1. inbox \in Seq(S) /\ Steps[step] \in S
        BY <1>3, <3>1
      <4> HIDE DEF S
      <4>2. QED
        BY <2>3, <4>1, AppendProperties
    <3>4. QED
      BY <1>4, <1>5, <2>1, <3>2, <3>3 DEF Has
  <2>4. QED
    BY <2>1, <2>2, <2>3
<1>8. CASE ReadChunk
  <2>1. PICK k \in 1..Len(wire) : wire' = SubSeq(wire, k + 1, Len(wire)) /\ inbox' = inbox
    BY <1>8 DEF ReadChunk
  <2>2. \A i \in DOMAIN wire' : k + i \in DOMAIN wire /\ wire'[i] = wire[k + i]
    BY <1>3, <2>1, ReadRest
  <2>3. QED
    BY <1>4, <1>5, <2>1, <2>2 DEF Has
<1>9. CASE Reply
  <2>1. PICK text, m : Says(text, m) /\ Spoken(Head(inbox), text, m)
    BY <1>9, AfterReply
  <2>2. inbox # <<>> /\ inbox' = Tail(inbox)
    BY <1>9, AfterReply
  <2>3. \A i \in DOMAIN wire' :
            \/ i \in DOMAIN wire /\ wire'[i] = wire[i]
            \/ \E j \in DOMAIN text : wire'[i] = text[j]
    BY <1>3, <2>1, SaysAfter DEF Spoken
  <2>4. /\ Head(inbox) # c
        /\ \A i \in DOMAIN inbox' : i + 1 \in DOMAIN inbox /\ inbox'[i] = inbox[i + 1]
    BY <1>4, <2>2, Commanded DEF Has
  <2>5. \A j \in DOMAIN text : text[j] # c
    BY <1>2, <2>1, <2>4 DEF Spoken, Specials, BannerLines
  <2>6. QED
    BY <1>4, <1>5, <2>3, <2>4, <2>5 DEF Has
<1>10. CASE GiveUp
  <2>1. Says(<<"denied", "device>">>, "exec") /\ inbox' = inbox
    BY <1>10 DEF GiveUp, Denied
  <2> DEFINE text == <<"denied", "device>">>
  <2>2. text \in Seq(Tokens) /\ \A j \in DOMAIN text : text[j] # c
    BY <1>2, StepsFacts DEF Specials, BannerLines
  <2> HIDE DEF text
  <2>3. \A i \in DOMAIN wire' :
            \/ i \in DOMAIN wire /\ wire'[i] = wire[i]
            \/ \E j \in DOMAIN text : wire'[i] = text[j]
    BY <1>3, <2>1, <2>2, SaysAfter DEF text
  <2>4. QED
    BY <1>4, <1>5, <2>1, <2>2, <2>3 DEF Has
<1>11. CASE Close
  <2>1. PICK k \in 0..Len(wire) : wire' = SubSeq(wire, 1, k)
    BY <1>11 DEF Close
  <2>2. inbox' = <<>> /\ \A i \in DOMAIN wire' : i \in DOMAIN wire /\ wire'[i] = wire[i]
    BY <1>3, <1>11, <2>1 DEF Close
  <2>3. QED
    BY <1>4, <1>5, <2>2 DEF Has
<1>12. CASE Check \/ ReadEnd \/ Expire \/ UNCHANGED vars
  <2>1. wire' = wire /\ inbox' = inbox
    BY <1>12 DEF Check, ReadEnd, Expire, vars, device
  <2>2. QED
    BY <1>4, <1>5, <2>1 DEF Has
<1>13. QED
  BY <1>6, <1>7, <1>8, <1>9, <1>10, <1>11, <1>12 DEF Next, ClientStep

AnswersOwn == \A n \in DOMAIN Steps :
    /\ Steps[n] \in Commands /\ Answered(n)
    /\ spilt = 0 \/ n < spilt
    => got[n] \subseteq {Steps[n]} \union Prompts /\ Past(n)

LEMMA AnswersStep ==
  ASSUME QuietBanner, TypeOK, Tracked, Escalated, AnswersOwn, [Next]_vars
  PROVE  AnswersOwn'
<1> SUFFICES ASSUME NEW n \in DOMAIN Steps, Steps[n] \in Commands, Answered(n)',
                    (spilt = 0 \/ n < spilt)'
             PROVE  got'[n] \subseteq {Steps[n]} \union Prompts /\ Past(n)'
  BY DEF AnswersOwn
<1>1. n \in Nat /\ n > 5
  BY CommandSteps, StepsFacts
<1>2. CASE got'[n] \in {got[n], {"error"}}
  <2>1. got'[n] = got[n] /\ Answered(n)
    BY <1>2 DEF Answered
  <2>2. spilt = 0 \/ n < spilt
    BY GotStep
  <2>3. got[n] \subseteq {Steps[n]} \union Prompts /\ Past(n)
    BY <2>1, <2>2 DEF AnswersOwn
  <2>4. QED
    BY <2>1, <2>3, StaysPast
<1>3. CASE got'[n] \notin {got[n], {"error"}}
  <2>1. n = step /\ phase = "read" /\ spilt' = spilt /\ step' > step
    BY <1>3, GotStep
  <2>2. PICK k, b : ReplyTaken(n, k, b)
    BY <1>3, GotStep
  <2>3. Engaged
    <3>1. spilt \in Nat /\ spilt <= n
      <4> DEFINE m == Len(Steps)
      <4>1. spilt \in 0..m /\ m \in Nat
        BY StepsFacts DEF TypeOK
      <4> HIDE DEF m
      <4>2. QED
        BY <2>1, <4>1 DEF Tracked, Spilling
    <3>2. spilt = 0
      BY <1>1, <2>1, <3>1
    <3>3. QED
      BY <2>1, <3>2 DEF Engaged
  <2>4. step \notin {1, 2, 3} /\ Own = {Steps[n]}
    BY <1>1, <2>1 DEF Own
  <2>5. HashShown
    BY DEF Escalated
  <2>6. /\ inbox = <<>> /\ wire' = <<>>
        /\ \A i \in DOMAIN b : b[i] \in Own \/ (b[i] \in Prompts /\ i = Len(b))
    BY <2>1, <2>2, <2>3, <2>4, <2>5, PromptShown DEF ReplyTaken
  <2>7. got'[n] \subseteq {Steps[n]} \union Prompts
    BY <2>2, <2>4, <2>6 DEF ReplyTaken
  <2>8. Past(n)'
    BY <2>1, <2>2, <2>6 DEF Past, Has, ReplyTaken
  <2>9. QED
    BY <2>7, <2>8
<1>4. QED
  BY <1>2, <1>3

(***************************************************************************)
(* "Each step's error stays local to that block" (GetHealth): where the    *)
(* banner has nothing that looks like a prompt, a block that was parsed    *)
(* before any reply exceeded the buffer was parsed from the output of its  *)
(* own command and from nothing else, and from all of it.                  *)
(***************************************************************************)
THEOREM OwnReplyCorrect ==
  ASSUME QuietBanner
  PROVE  Spec => []OwnReply
<1>1. Init => AnswersOwn
  <2> SUFFICES ASSUME Init PROVE AnswersOwn
    OBVIOUS
  <2>1. got = [n \in DOMAIN Steps |-> {}]
    BY DEF Init
  <2>2. QED
    BY <2>1 DEF AnswersOwn, Answered
<1>2. TypeOK /\ Tracked /\ Escalated /\ AnswersOwn /\ [Next]_vars => AnswersOwn'
  BY AnswersStep
<1>3. AnswersOwn => OwnReply
  BY DEF AnswersOwn, OwnReply, Past
<1>4. QED
  BY <1>1, <1>2, <1>3, TypeCorrect, EscalatedCorrect, TrackedCorrect, QuietIsUnmisled, PTL DEF Spec
---------------------------------------------------------------------------
(***************************************************************************)
(* Who waits for whom.  An engaged client that is not about to write has   *)
(* what it stops at on the wire, or its command with the device, which     *)
(* will answer with it.                                                    *)
(***************************************************************************)
Stop == IF step = 2 THEN {"Password:"} ELSE Prompts

Owing ==
    secret \in {"right", "unused"} /\ open /\ Engaged /\ phase # "write"
    => inbox = <<Steps[step]>> \/ Has(wire, Stop)

\* What the device says is on the wire, beside what was there.
LEMMA SaysHas ==
  ASSUME wire \in Seq(Tokens), NEW text \in Seq(Tokens), NEW m, Says(text, m), NEW T
  PROVE  Has(wire', T) <=> Has(wire, T) \/ Has(text, T)
<1>1. wire' = wire \o text
  BY DEF Says
<1>2. Len(wire) \in Nat /\ Len(text) \in Nat /\ DOMAIN wire = 1..Len(wire)
      /\ DOMAIN text = 1..Len(text)
  OBVIOUS
<1>3. /\ wire' \in Seq(Tokens) /\ Len(wire') = Len(wire) + Len(text)
      /\ \A i \in 1..(Len(wire) + Len(text)) :
            wire'[i] = IF i <= Len(wire) THEN wire[i] ELSE text[i - Len(wire)]
  BY <1>1, ConcatProperties
<1>4. DOMAIN wire' = 1..(Len(wire) + Len(text))
  BY <1>2, <1>3
<1>5. ASSUME NEW i \in DOMAIN wire PROVE i \in DOMAIN wire' /\ wire'[i] = wire[i]
  BY <1>2, <1>3, <1>4
<1>6. ASSUME NEW j \in DOMAIN text
      PROVE  Len(wire) + j \in DOMAIN wire' /\ wire'[Len(wire) + j] = text[j]
  <2>1. j \in Nat /\ j >= 1 /\ Len(wire) + j \in 1..(Len(wire) + Len(text))
    BY <1>2
  <2>2. ~(Len(wire) + j <= Len(wire)) /\ (Len(wire) + j) - Len(wire) = j
    BY <1>2, <2>1
  <2>3. QED
    BY <1>3, <1>4, <2>1, <2>2
<1>7. \A i \in DOMAIN wire' :
         \/ i \in DOMAIN wire /\ wire'[i] = wire[i]
         \/ \E j \in DOMAIN text : wire'[i] = text[j]
  BY SaysAfter
<1>8. QED
  BY <1>5, <1>6, <1>7 DEF Has

\* A show command is answered with text and the prompt of the mode.
LEMMA ShowsPrompt ==
  ASSUME TypeOK, Show, inbox # <<>>
  PROVE  /\ Has(wire', Prompts)
         /\ Len(wire') <= Len(wire) + (MaxBody + 1) /\ Len(wire') \in Nat
<1> DEFINE c == Head(inbox)  p == IF mode = "privileged" THEN "device#" ELSE "device>"
<1>1. PICK k \in 0..MaxBody : Says([i \in 1..k |-> c] \o <<p>>, mode)
  BY DEF Show
<1>2. c \in Tokens /\ p \in Tokens /\ p \in Prompts
  BY Commanded, StepsFacts DEF Prompts, Specials, BannerLines
<1> HIDE DEF c, p
<1> DEFINE s == [i \in 1..k |-> c]  u == <<p>>  text == s \o u
<1>3. k \in Nat
  BY SessionAssumption
<1>4. s \in Seq(Tokens) /\ Len(s) = k
  BY <1>2, <1>3
<1>5. u \in Seq(Tokens) /\ Len(u) = 1 /\ u[1] = p
  BY <1>2
<1>6. Says(text, mode)
  BY <1>1
<1> HIDE DEF s, u
<1>7. /\ text \in Seq(Tokens) /\ Len(text) = k + 1
      /\ \A i \in 1..(k + 1) : text[i] = IF i <= k THEN s[i] ELSE u[i - k]
  <2>1. /\ text \in Seq(Tokens) /\ Len(text) = Len(s) + Len(u)
        /\ \A i \in 1..(Len(s) + Len(u)) : text[i] = IF i <= Len(s) THEN s[i] ELSE u[i - Len(s)]
    BY <1>4, <1>5, ConcatProperties
  <2>2. QED
    BY <1>4, <1>5, <2>1
<1> HIDE DEF text
<1>8. k + 1 \in DOMAIN text /\ text[k + 1] = p
  BY <1>3, <1>5, <1>7
<1>9. Has(text, Prompts)
  BY <1>2, <1>8 DEF Has
<1>10. wire \in Seq(Tokens) /\ Len(wire) \in Nat
  <2>1. wire \in Seq(Tokens)
    BY DEF TypeOK
  <2>2. QED
    BY <2>1
<1>11. Len(wire') = Len(wire) + (k + 1)
  BY <1>6, <1>7, <1>10, SaysAfter
<1>12. k <= MaxBody /\ MaxBody \in Nat
  BY SessionAssumption
<1>13. Len(wire') <= Len(wire) + (MaxBody + 1) /\ Len(wire') \in Nat
  BY <1>3, <1>10, <1>11, <1>12
<1>14. Has(wire', Prompts)
  BY <1>6, <1>7, <1>9, <1>10, SaysHas
<1>15. QED
  BY <1>13, <1>14

LEMMA OwingDial ==
  ASSUME TypeOK, Tracked, Dial
  PROVE  Owing'
<1> SUFFICES ASSUME phase' = "check" PROVE Has(wire', Prompts) /\ step' # 2
  BY DEF Owing, Stop, Engaged, Dial
<1> DEFINE p == IF mode = "privileged" THEN "device#" ELSE "device>"  u == <<p>>
           S == BannerLines
<1>1. step' = 1 /\ wire' = Banner \o u
  BY DEF Dial, Tracked, Dialling
<1>2. p \in Prompts
  BY DEF Prompts
<1> HIDE DEF p
<1>3. u \in Seq(Prompts) /\ Len(u) = 1 /\ u[1] = p
  BY <1>2
<1> HIDE DEF u
<1>4. Banner \in Seq(S) /\ u \in Seq(S) /\ Len(Banner) \in Nat
  <2>1. Prompts \subseteq S
    BY DEF Prompts, BannerLines
  <2>2. QED
    BY <1>3, <2>1, SessionAssumption, SeqMonotonic
<1> HIDE DEF S
<1>5. /\ wire' \in Seq(S) /\ Len(wire') = Len(Banner) + 1
      /\ \A i \in 1..(Len(Banner) + 1) :
            wire'[i] = IF i <= Len(Banner) THEN Banner[i] ELSE u[i - Len(Banner)]
  <2>1. /\ wire' \in Seq(S) /\ Len(wire') = Len(Banner) + Len(u)
        /\ \A i \in 1..(Len(Banner) + Len(u)) :
              wire'[i] = IF i <= Len(Banner) THEN Banner[i] ELSE u[i - Len(Banner)]
    BY <1>1, <1>4, ConcatProperties
  <2>2. QED
    BY <1>3, <2>1
<1>6. Len(Banner) + 1 \in DOMAIN wire' /\ wire'[Len(Banner) + 1] = p
  BY <1>3, <1>4, <1>5
<1>7. QED
  BY <1>1, <1>2, <1>6 DEF Has

\* What the client stops at and has not read is still to be read.
LEMMA OwingRead ==
  ASSUME TypeOK, Tracked, Owing, ReadChunk
  PROVE  Owing'
<1>1. buf \in Seq(Tokens) /\ wire \in Seq(Tokens)
  BY DEF TypeOK
<1>2. PICK n, b : ReadAs(n, b)
  BY <1>1, AfterRead
<1>3. /\ n \in 1..Len(wire) /\ phase = "read" /\ b = buf \o SubSeq(wire, 1, n)
      /\ wire' = SubSeq(wire, n + 1, Len(wire))
      /\ UNCHANGED <<late, inbox, mode, secret, open>>
  BY <1>2 DEF ReadAs
<1>4. CASE phase' \in {"write", "answered", "failed"}
  BY <1>4 DEF Owing, Engaged
<1>5. CASE ~Matches(b) /\ phase' = "check" /\ buf' = b /\ UNCHANGED <<step, host, got, spilt>>
  <2> SUFFICES ASSUME secret \in {"right", "unused"}, open, Engaged', inbox # <<Steps[step]>>
               PROVE  Has(wire', Stop)
    BY <1>3, <1>5 DEF Owing, Stop
  <2>1. Engaged
    BY <1>3, <1>5 DEF Engaged
  <2>2. PICK j \in DOMAIN wire : wire[j] \in Stop
    BY <1>3, <2>1 DEF Owing, Has
  <2>3. ~Has(b, Stop)
    <3>1. step \in DOMAIN Steps
      BY <1>3, AtStep
    <3>2. CASE step = 2
      BY <1>5, <3>2, StepCases DEF Matches, Stop
    <3>3. CASE step # 2
      <4>1. ~Has(b, Looked(host))
        <5>1. 2 \in DOMAIN Steps
          BY StepsFacts
        <5>2. Steps[step] # "enable"
          BY <3>1, <3>3, <5>1, StepsFacts
        <5>3. QED
          BY <1>5, <5>2 DEF Matches
      <4>2. Prompts \subseteq Looked(host)
        BY DEF Tracked, HostKnown, Looked
      <4>3. QED
        BY <3>3, <4>1, <4>2 DEF Has, Stop
    <3>4. QED
      BY <3>2, <3>3
  <2>4. Len(wire) \in Nat /\ n \in Nat /\ n >= 1 /\ n <= Len(wire) /\ j \in 1..Len(wire)
        /\ Len(buf) \in Nat
    BY <1>1, <1>3
  <2>5. ~(j <= n)
    <3> SUFFICES ASSUME j <= n PROVE FALSE
      OBVIOUS
    <3> DEFINE x == SubSeq(wire, 1, n)
    <3>1. x \in Seq(Tokens) /\ Len(x) = n /\ \A i \in 1..n : x[i] = wire[i]
      BY <1>1, <2>4, SubSeqProperties
    <3> HIDE DEF x
    <3>2. /\ b \in Seq(Tokens) /\ Len(b) = Len(buf) + n
          /\ \A i \in 1..(Len(buf) + n) : b[i] = IF i <= Len(buf) THEN buf[i] ELSE x[i - Len(buf)]
      BY <1>1, <1>3, <3>1, ConcatProperties DEF x
    <3>3. Len(buf) + j \in 1..(Len(buf) + n) /\ ~(Len(buf) + j <= Len(buf))
          /\ (Len(buf) + j) - Len(buf) = j /\ j \in 1..n
      BY <2>4
    <3>4. Len(buf) + j \in DOMAIN b /\ b[Len(buf) + j] = wire[j]
      BY <3>1, <3>2, <3>3
    <3>5. QED
      BY <2>2, <2>3, <3>4 DEF Has
  <2>6. /\ wire' \in Seq(Tokens) /\ Len(wire') = Len(wire) - n
        /\ \A i \in 1..(Len(wire) - n) : wire'[i] = wire[n + i]
    BY <1>1, <1>3, <2>4, SubSeqProperties
  <2>7. j - n \in 1..(Len(wire) - n) /\ n + (j - n) = j
    BY <2>4, <2>5
  <2>8. j - n \in DOMAIN wire' /\ wire'[j - n] = wire[j]
    BY <2>4, <2>6, <2>7
  <2>9. QED
    BY <2>2, <2>8 DEF Has
<1>6. CASE Fail
  BY <1>3, <1>4, <1>6, AfterFail
<1>7. CASE Accept(b) /\ ~Fail
  BY <1>3, <1>4, <1>7, AfterAccept
<1>8. QED
  BY <1>2, <1>5, <1>6, <1>7 DEF ReadAs

\* The device answers with it.
LEMMA OwingReply ==
  ASSUME TypeOK, Tracked, Owing, Reply
  PROVE  Owing'
<1>1. inbox # <<>> /\ inbox' = Tail(inbox) /\ open /\ UNCHANGED <<client, late, secret, open>>
  BY AfterReply
<1>2. wire \in Seq(Tokens) /\ mode \in {"exec", "password", "privileged"}
  BY DEF TypeOK
<1>3. PICK text, m : Says(text, m) /\ Spoken(Head(inbox), text, m)
  BY AfterReply
<1> SUFFICES ASSUME secret \in {"right", "unused"}, Engaged, phase # "write"
             PROVE  Has(wire', Stop)
  BY <1>1 DEF Owing, Stop, Engaged, client
<1>4. CASE Has(wire, Stop)
  BY <1>2, <1>3, <1>4, SaysHas DEF Spoken
<1>5. CASE inbox = <<Steps[step]>>
  <2>1. Head(inbox) = Steps[step] /\ step # 1 /\ step \in DOMAIN Steps
    <3>1. step # 1
      BY <1>1 DEF Tracked, LoggingIn
    <3>2. step \in DOMAIN Steps
      BY AtStep DEF Engaged
    <3>3. QED
      BY <1>5, <3>1, <3>2
  <2>2. CASE step = 2
    <3>1. mode = "exec" /\ Head(inbox) = "enable"
      BY <1>1, <2>1, <2>2, StepCases DEF Tracked, Enabling
    <3>2. Says(<<"Password:">>, "password")
      BY <3>1 DEF Reply, TakePassword, AskPassword, Show
    <3>3. <<"Password:">> \in Seq(Tokens) /\ Has(<<"Password:">>, {"Password:"})
      <4>1. "Password:" \in Tokens
        BY StepsFacts DEF Specials, BannerLines
      <4>2. QED
        BY <4>1 DEF Has
    <3>4. QED
      BY <1>2, <2>2, <3>2, <3>3, SaysHas DEF Stop
  <2>3. CASE step = 3 /\ mode = "password"
    <3>1. Says(<<"device#">>, "privileged")
      BY <2>3 DEF Reply, TakePassword, AskPassword, Show
    <3>2. <<"device#">> \in Seq(Tokens) /\ Has(<<"device#">>, Prompts)
      <4>1. "device#" \in Tokens /\ "device#" \in Prompts
        BY StepsFacts DEF Specials, BannerLines, Prompts
      <4>2. QED
        BY <4>1 DEF Has
    <3>3. Has(wire', Prompts)
      BY <1>2, <3>1, <3>2, SaysHas
    <3>4. QED
      BY <2>3, <3>3 DEF Stop
  <2>4. CASE step # 2 /\ mode # "password"
    <3>1. Head(inbox) # "enable"
      <4>1. 2 \in DOMAIN Steps
        BY StepsFacts
      <4>2. QED
        BY <2>1, <2>4, <4>1, StepsFacts
    <3>2. Show
      BY <2>4, <3>1 DEF Reply, TakePassword, AskPassword
    <3>3. QED
      BY <1>1, <2>4, <3>2, ShowsPrompt DEF Stop
  <2>5. mode = "password" => step \in {2, 3}
    BY DEF Tracked, Replying
  <2>6. QED
    BY <2>2, <2>3, <2>4, <2>5
<1>6. QED
  BY <1>1, <1>4, <1>5 DEF Owing

LEMMA OwingStep ==
  ASSUME TypeOK, Tracked, Owing, [Next]_vars
  PROVE  Owing'
<1>1. CASE Dial
  BY <1>1, OwingDial
<1>2. CASE Write
  <2>1. CASE open
    <3>1. /\ inbox' = Append(inbox, Steps[step]) /\ phase' = "check" /\ phase = "write"
          /\ UNCHANGED <<step, spilt, late>>
      BY <1>2, <2>1 DEF Write
    <3>2. Engaged' => inbox = <<>>
      <4>1. Engaged' => Engaged
        BY <3>1 DEF Engaged
      <4>2. Engaged => inbox = <<>>
        BY <3>1 DEF Tracked, LoggingIn, Enabling, Proving, Replying, Clear
      <4>3. QED
        BY <4>1, <4>2
    <3>3. inbox = <<>> => inbox' = <<Steps[step]>>
      BY <3>1
    <3>4. QED
      BY <3>1, <3>2, <3>3 DEF Owing
  <2>2. CASE ~open
    BY <1>2, <2>2 DEF Write, Owing
  <2>3. QED
    BY <2>1, <2>2
<1>3. CASE Check
  <2>1. CASE late
    <3>1. Fail /\ phase = "check"
      BY <1>3, <2>1 DEF Check
    <3>2. phase' \in {"write", "answered", "failed"}
      BY <3>1, AfterFail
    <3>3. QED
      BY <3>2 DEF Owing, Engaged
  <2>2. CASE ~late
    BY <1>3, <2>2 DEF Check, Owing, Stop, Engaged, device
  <2>3. QED
    BY <2>1, <2>2
<1>4. CASE ReadChunk
  BY <1>4, OwingRead
<1>5. CASE ReadEnd
  BY <1>5 DEF ReadEnd, Owing, device
<1>6. CASE Reply
  BY <1>6, OwingReply
<1>7. CASE GiveUp
  <2>1. /\ Says(<<"denied", "device>">>, "exec")
        /\ UNCHANGED <<client, late, inbox, secret, open>>
    BY <1>7 DEF GiveUp, Denied
  <2>2. wire \in Seq(Tokens)
    BY DEF TypeOK
  <2>3. Has(wire, Stop) => Has(wire', Stop)
    <3>1. <<"denied", "device>">> \in Seq(Tokens)
      BY StepsFacts DEF Specials, BannerLines
    <3>2. QED
      BY <2>1, <2>2, <3>1, SaysHas
  <2>4. QED
    BY <2>1, <2>3 DEF Owing, Stop, Engaged, client
<1>8. CASE Close
  BY <1>8 DEF Close, Owing
<1>9. CASE Expire \/ UNCHANGED vars
  <2>1. UNCHANGED <<client, device>> /\ (late' = late \/ late')
    BY <1>9 DEF Expire, vars
  <2>2. QED
    BY <2>1 DEF Owing, Stop, Engaged, client, device
<1>10. QED
  BY <1>1, <1>2, <1>3, <1>4, <1>5, <1>6, <1>7, <1>8, <1>9 DEF Next, ClientStep

(***************************************************************************)
(* Client and device never wait for each other: however the replies are    *)
(* cut and the device's patience ends, a client that waits for text has    *)
(* some on its way or its command with the device, as long as the password *)
(* fits, the banner is quiet, the line is open and no reply was too long.  *)
(***************************************************************************)
THEOREM OwedCorrect ==
  ASSUME QuietBanner
  PROVE  Spec => []Owed
<1>1. Init => Owing
  BY DEF Init, Owing, Engaged
<1>2. TypeOK /\ Tracked /\ Owing /\ [Next]_vars => Owing'
  BY OwingStep
<1>3. Owing => Owed
  <2> SUFFICES ASSUME Owing, secret \in {"right", "unused"}, open, spilt = 0, phase = "read",
                      wire = <<>>
               PROVE  inbox # <<>>
    BY DEF Owed
  <2>1. ~Has(wire, Stop)
    BY DEF Has
  <2>2. inbox = <<Steps[step]>>
    BY <2>1 DEF Owing, Engaged
  <2>3. QED
    BY <2>2
<1>4. QED
  BY <1>1, <1>2, <1>3, TypeCorrect, TrackedCorrect, PTL DEF Spec
---------------------------------------------------------------------------
(***************************************************************************)
(* Where the enable password is typed.  A device that is patient answers   *)
(* "enable" with "Password:" only as it begins to wait for one, and the    *)
(* client goes on to the password only when it has read that.              *)
(***************************************************************************)
PasswordAsked == Has(inbox, {"secret"}) => mode = "password"

AskShown == Has(buf, {"Password:"}) \/ Has(wire, {"Password:"})

Asking ==
    /\ phase = "dial" => step = 1 /\ wire = <<>>
    /\ step = 1 => inbox = <<>> /\ phase # "write" /\ ~AskShown
    /\ step = 2 =>
          /\ inbox = <<>> \/ (inbox = <<"enable">> /\ ~AskShown)
          /\ phase = "write" => inbox = <<>> /\ ~AskShown
          /\ AskShown => mode = "password"
    /\ step = 3 /\ phase = "write" => inbox = <<>> /\ mode = "password"
    /\ \A i \in DOMAIN inbox : inbox[i] = "secret" => i = 1 /\ mode = "password"

\* The client waits, or gives up, and the device says nothing new.
AskingKept ==
    /\ inbox' = inbox \/ inbox' = <<>>
    /\ mode' = mode
    /\ AskShown' => AskShown
    /\ \/ phase' \in {"check", "read"} /\ step' = step
       \/ phase' = phase /\ step' = step /\ (phase = "dial" => wire' = wire \/ wire' = <<>>)
       \/ phase' \in {"write", "answered"} /\ step' \in Nat /\ step' >= 4
       \/ phase' = "failed" /\ step' = step

LEMMA AskingStays ==
  ASSUME TypeOK, Asking, AskingKept
  PROVE  Asking'
<1>1. step \in Nat
  BY StepIsNat
<1>2. \A i \in DOMAIN inbox' : inbox'[i] = "secret" => i = 1 /\ mode' = "password"
  BY DEF Asking, AskingKept
<1>3. step' # step => step' \notin {1, 2, 3} /\ phase' # "dial"
  BY <1>1 DEF AskingKept
<1>4. phase' = "write" /\ step' = step => phase = "write" \/ step' \notin {1, 2, 3}
  BY DEF AskingKept
<1>5. phase' = "dial" => step' = 1 /\ wire' = <<>>
  BY DEF Asking, AskingKept
<1>6. QED
  BY <1>2, <1>3, <1>4, <1>5 DEF Asking, AskingKept

LEMMA AskingFail ==
  ASSUME TypeOK, Asking, phase \in {"write", "check", "read"}, Fail,
         inbox' = inbox, mode' = mode, AskShown' => AskShown
  PROVE  Asking'
<1>1. step \in Nat
  BY StepIsNat
<1>2. \/ phase' = "failed" /\ step' = step
      \/ phase' \in {"write", "answered"} /\ step' \in Nat /\ step' >= 4
  BY <1>1, AfterFail
<1>3. QED
  BY <1>2, AskingStays DEF AskingKept

LEMMA AskingInit == Init => Asking
<1>1. Init => phase = "dial" /\ step = 1 /\ buf = <<>> /\ wire = <<>> /\ inbox = <<>>
  BY DEF Init
<1>2. QED
  BY <1>1 DEF Asking, AskShown, Has

LEMMA AskingDial ==
  ASSUME TypeOK, Asking, Dial
  PROVE  Asking'
<1>1. /\ phase = "dial" /\ phase' \in {"check", "failed"}
      /\ UNCHANGED <<step, buf, inbox, mode>> /\ buf = <<>> /\ step = 1
  BY DEF Dial, Asking, TypeOK
<1>2. ASSUME NEW p \in {"device#", "device>"}, wire' = Banner \o <<p>>
      PROVE  ~Has(wire', {"Password:"})
  <2> DEFINE S == BannerLines
  <2>1. Banner \in Seq(S)
    BY SessionAssumption
  <2>2. <<p>> \in Seq(S)
    BY DEF BannerLines
  <2>3. "Password:" \notin S
    BY DEF BannerLines
  <2> HIDE DEF S
  <2>4. wire' \in Seq(S)
    BY <1>2, <2>1, <2>2, ConcatProperties
  <2>5. \A i \in DOMAIN wire' : wire'[i] \in S
    BY <2>4
  <2>6. QED
    BY <2>3, <2>5 DEF Has
<1>3. wire' = wire \/ \E p \in {"device#", "device>"} : wire' = Banner \o <<p>>
  BY DEF Dial
<1>4. AskShown' => AskShown
  BY <1>1, <1>2, <1>3 DEF AskShown, Has
<1>5. QED
  BY <1>1, <1>4, AskingStays DEF AskingKept

LEMMA AskingWrite ==
  ASSUME TypeOK, Asking, Write
  PROVE  Asking'
<1>1. phase = "write" /\ UNCHANGED <<wire, mode>>
  BY DEF Write
<1>2. step \in DOMAIN Steps
  BY <1>1, AtStep
<1>3. CASE ~open
  BY <1>1, <1>3, AskingFail, AfterFail DEF Write, AskShown, Has
<1>4. CASE open
  <2>1. inbox' = Append(inbox, Steps[step]) /\ phase' = "check" /\ UNCHANGED <<step, buf>>
    BY <1>4 DEF Write
  <2>2. AskShown' <=> AskShown
    BY <1>1, <2>1 DEF AskShown
  <2>3. step # 1
    BY <1>1 DEF Asking
  <2>4. step = 2 => inbox' = <<"enable">> /\ ~AskShown
    BY <1>1, <2>1, StepCases DEF Asking
  <2>5. \A i \in DOMAIN inbox' : inbox'[i] = "secret" => i = 1 /\ mode' = "password"
    <3>1. CASE step = 3
      <4>1. inbox' = <<"secret">> /\ mode = "password"
        BY <1>1, <2>1, <3>1, StepCases DEF Asking
      <4>2. QED
        BY <1>1, <4>1
    <3>2. CASE step # 3
      <4>1. Steps[step] # "secret"
        <5>1. 3 \in DOMAIN Steps
          BY StepsFacts
        <5>2. QED
          BY <1>2, <3>2, <5>1, StepsFacts
      <4>2. \A i \in DOMAIN inbox' :
               (i \in DOMAIN inbox /\ inbox'[i] = inbox[i]) \/ inbox'[i] = Steps[step]
        <5> DEFINE S == {Steps[k] : k \in DOMAIN Steps}
        <5>1. inbox \in Seq(S) /\ Steps[step] \in S
          BY <1>2 DEF TypeOK
        <5> HIDE DEF S
        <5>2. QED
          BY <2>1, <5>1, AppendProperties
      <4>3. QED
        BY <1>1, <4>1, <4>2 DEF Asking
    <3>3. QED
      BY <3>1, <3>2
  <2>6. QED
    BY <2>1, <2>2, <2>3, <2>4, <2>5 DEF Asking
<1>5. QED
  BY <1>3, <1>4

LEMMA AskingRead ==
  ASSUME TypeOK, Asking, ReadChunk
  PROVE  Asking'
<1>1. buf \in Seq(Tokens) /\ wire \in Seq(Tokens) /\ step \in Nat
  BY StepIsNat DEF TypeOK
<1>2. PICK n, b : ReadAs(n, b)
  BY <1>1, AfterRead
<1>3. /\ n \in 1..Len(wire) /\ phase = "read" /\ b = buf \o SubSeq(wire, 1, n)
      /\ wire' = SubSeq(wire, n + 1, Len(wire))
      /\ UNCHANGED <<late, inbox, mode, secret, open>>
  BY <1>2 DEF ReadAs
<1>4. Has(b, {"Password:"}) => AskShown
  <2>1. FromRead(n, b)
    BY <1>1, <1>3, ReadItems
  <2>2. \A j \in 1..n : j \in DOMAIN wire
    BY <1>1, <1>3
  <2>3. QED
    BY <2>1, <2>2 DEF FromRead, AskShown, Has
<1>5. Has(wire', {"Password:"}) => AskShown
  <2>1. \A i \in DOMAIN wire' : n + i \in DOMAIN wire /\ wire'[i] = wire[n + i]
    BY <1>1, <1>3, ReadRest
  <2>2. QED
    BY <2>1 DEF AskShown, Has
<1>6. CASE Fail
  <2>1. buf' = <<>>
    BY <1>3, <1>6, AfterFail
  <2>2. AskShown' => AskShown
    BY <1>5, <2>1 DEF AskShown, Has
  <2>3. QED
    BY <1>3, <1>6, <2>2, AskingFail
<1>7. CASE Accept(b) /\ Matches(b) /\ ~Fail
  <2>1. /\ buf' = <<>> /\ phase' \in {"write", "answered"}
        /\ \/ step' = step + 1
           \/ step' = 4 /\ step = 1
    BY <1>3, <1>7, AfterAccept
  <2>2. AskShown' => AskShown
    BY <1>5, <2>1 DEF AskShown, Has
  <2>3. CASE step' >= 4
    BY <1>1, <1>3, <2>1, <2>2, <2>3, AskingStays DEF AskingKept
  <2>4. CASE step = 1 /\ step' = 2
    BY <1>3, <2>1, <2>2, <2>4 DEF Asking
  <2>5. CASE step = 2 /\ step' = 3
    <3>1. AskShown
      BY <1>4, <1>7, <2>5, StepCases DEF Matches
    <3>2. inbox' = <<>> /\ mode' = "password"
      BY <1>3, <2>5, <3>1 DEF Asking
    <3>3. QED
      BY <2>1, <2>5, <3>2 DEF Asking
  <2>6. step >= 1
    BY <1>3, AtStep
  <2>7. step = 1 \/ step = 2 \/ step >= 3
    BY <1>1, <2>6
  <2>8. QED
    BY <1>1, <2>1, <2>3, <2>4, <2>5, <2>7
<1>8. CASE phase' = "check" /\ buf' = b /\ UNCHANGED <<step, host, got, spilt>>
  <2>1. AskShown' => AskShown
    BY <1>4, <1>5, <1>8 DEF AskShown
  <2>2. QED
    BY <1>3, <1>8, <2>1, AskingStays DEF AskingKept
<1>9. QED
  BY <1>2, <1>6, <1>7, <1>8 DEF ReadAs

LEMMA AskingReply ==
  ASSUME TypeOK, Asking, Reply
  PROVE  Asking'
<1>1. inbox # <<>> /\ inbox' = Tail(inbox) /\ UNCHANGED <<phase, step, buf>>
  BY AfterReply DEF client
<1>2. PICK text, m : Says(text, m) /\ Spoken(Head(inbox), text, m)
  BY AfterReply
<1>3. wire \in Seq(Tokens)
  BY DEF TypeOK
<1>4. step # 1 /\ phase # "dial"
  BY <1>1 DEF Asking
<1>5. ~(step = 3 /\ phase = "write")
  BY <1>1 DEF Asking
<1>6. step = 2 => /\ phase # "write" /\ inbox' = <<>>
                  /\ AskShown' => mode' = "password"
  <2> SUFFICES ASSUME step = 2
               PROVE  /\ phase # "write" /\ inbox' = <<>>
                      /\ AskShown' => mode' = "password"
    OBVIOUS
  <2>1. inbox = <<"enable">> /\ ~AskShown /\ phase # "write"
    BY <1>1 DEF Asking
  <2>2. inbox' = <<>>
    BY <1>1, <2>1
  <2>3. Has(wire', {"Password:"}) => Has(text, {"Password:"})
    BY <1>2, <1>3, <2>1, SaysHas DEF Spoken, AskShown
  <2>4. Has(text, {"Password:"}) => m = "password"
    BY <1>2 DEF Spoken, Has
  <2>5. mode' = m
    BY <1>2 DEF Says
  <2>6. QED
    BY <1>1, <2>1, <2>2, <2>3, <2>4, <2>5 DEF AskShown
<1>7. \A i \in DOMAIN inbox' : inbox'[i] # "secret"
  <2> SUFFICES ASSUME NEW i \in DOMAIN inbox' PROVE inbox'[i] # "secret"
    OBVIOUS
  <2>1. i + 1 \in DOMAIN inbox /\ inbox'[i] = inbox[i + 1]
    BY <1>1, Commanded
  <2>2. i + 1 # 1
    <3> DEFINE S == {Steps[k] : k \in DOMAIN Steps}
    <3>1. inbox' \in Seq(S)
      BY <1>1, Commanded
    <3> HIDE DEF S
    <3>2. i \in Nat /\ i >= 1
      BY <3>1
    <3>3. QED
      BY <3>2
  <2>3. QED
    BY <2>1, <2>2 DEF Asking
<1>8. QED
  BY <1>1, <1>4, <1>5, <1>6, <1>7 DEF Asking

LEMMA AskingStep ==
  ASSUME TypeOK, Asking, [Next /\ ~GiveUp]_vars
  PROVE  Asking'
<1>1. CASE Dial
  BY <1>1, AskingDial
<1>2. CASE Write
  BY <1>2, AskingWrite
<1>3. CASE Check
  <2>1. phase = "check" /\ UNCHANGED <<wire, inbox, mode>>
    BY <1>3 DEF Check, device
  <2>2. CASE late
    <3>1. Fail /\ buf' = <<>>
      BY <1>3, <2>1, <2>2, AfterFail DEF Check
    <3>2. AskShown' => AskShown
      BY <2>1, <3>1 DEF AskShown, Has
    <3>3. QED
      BY <2>1, <3>1, <3>2, AskingFail
  <2>3. CASE ~late
    BY <1>3, <2>1, <2>3, AskingStays DEF Check, AskingKept, AskShown
  <2>4. QED
    BY <2>2, <2>3
<1>4. CASE ReadChunk
  BY <1>4, AskingRead
<1>5. CASE ReadEnd
  <2>1. phase = "read" /\ Fail /\ UNCHANGED <<wire, inbox, mode>>
    BY <1>5 DEF ReadEnd, device
  <2>2. buf' = <<>>
    BY <2>1, AfterFail
  <2>3. AskShown' => AskShown
    BY <2>1, <2>2 DEF AskShown, Has
  <2>4. QED
    BY <2>1, <2>3, AskingFail
<1>6. CASE Reply
  BY <1>6, AskingReply
<1>7. CASE Close
  <2>1. PICK k \in 0..Len(wire) : wire' = SubSeq(wire, 1, k)
    BY <1>7 DEF Close
  <2>2. inbox' = <<>> /\ UNCHANGED <<phase, step, buf, mode>>
    BY <1>7 DEF Close, client
  <2>3. wire \in Seq(Tokens)
    BY DEF TypeOK
  <2>4. \A i \in DOMAIN wire' : i \in DOMAIN wire /\ wire'[i] = wire[i]
    BY <2>1, <2>3
  <2>5. wire = <<>> => wire' = <<>>
    <3>1. wire = <<>> => Len(wire) = 0
      OBVIOUS
    <3>2. Len(SubSeq(wire, 1, k)) = k /\ SubSeq(wire, 1, k) \in Seq(Tokens)
      BY <2>3
    <3>3. QED
      BY <2>1, <3>1, <3>2, EmptySeq
  <2>6. AskShown' => AskShown
    BY <2>2, <2>4 DEF AskShown, Has
  <2>7. phase = "dial" => wire' = <<>>
    BY <2>5 DEF Asking
  <2>8. QED
    BY <2>2, <2>6, <2>7, AskingStays DEF AskingKept
<1>8. CASE Expire \/ UNCHANGED vars
  BY <1>8, AskingStays DEF Expire, vars, client, device, AskingKept, AskShown
<1>9. QED
  BY <1>1, <1>2, <1>3, <1>4, <1>5, <1>6, <1>7, <1>8 DEF Next, ClientStep

(***************************************************************************)
(* The enable password is typed only at the question for it (escalate),    *)
(* whichever lines of the banner look like prompts, wherever reads are cut *)
(* and the line breaks, at a device that does not give up waiting for it.  *)
(* One that does takes the password for a command.                         *)
(***************************************************************************)
THEOREM PasswordAskedCorrect ==
  Init /\ [][Next /\ ~GiveUp]_vars => []PasswordAsked
<1>1. Init => TypeOK /\ Asking
  BY TypeInit, AskingInit
<1>2. TypeOK /\ Asking /\ [Next /\ ~GiveUp]_vars => TypeOK' /\ Asking'
  <2>1. [Next /\ ~GiveUp]_vars => [Next]_vars
    OBVIOUS
  <2>2. QED
    BY <2>1, AskingStep, TypeStep
<1>3. Asking => PasswordAsked
  BY DEF Asking, PasswordAsked, Has
<1>4. QED
  BY <1>1, <1>2, <1>3, PTL
---------------------------------------------------------------------------
(***************************************************************************)
(* A device that takes its time but answers, whose replies fit the buffer: *)
(* nothing is on the wire but the reply the client is at, which it reads   *)
(* to the end.                                                             *)
(***************************************************************************)
Fits == MaxBody + 1 <= Cap /\ Len(Banner) + 1 <= Cap

Faultless == phase # "failed" /\ \A n \in DOMAIN Steps : got[n] # {"error"}

Room == IF step \in {2, 3} THEN 1 ELSE Cap

OnItsWay ==
    /\ Len(buf) + Len(wire) <= Room
    /\ inbox = <<>> \/ (inbox = <<Steps[step]>> /\ buf = <<>> /\ wire = <<>> /\ phase # "dial"
                        /\ phase # "write" /\ phase # "answered")
    /\ phase = "write" => wire = <<>>
    /\ step = 3 => /\ \A i \in DOMAIN buf : buf[i] = "device#"
                   /\ \A i \in DOMAIN wire : wire[i] = "device#"

Smooth ==
    /\ secret \in {"right", "unused"} /\ (step \in {2, 3} => secret = "right")
    /\ open /\ ~late /\ spilt = 0 /\ Faultless /\ OnItsWay

LEMMA FitsFacts ==
  ASSUME Fits
  PROVE  Cap \in Nat /\ Cap >= 1 /\ MaxBody \in Nat /\ Len(Banner) \in Nat
<1>1. Cap \in Nat /\ MaxBody \in Nat /\ Banner \in Seq(BannerLines)
  BY SessionAssumption
<1>2. QED
  BY <1>1 DEF Fits

LEMMA SmoothDial ==
  ASSUME Fits, TypeOK, Tracked, Smooth, Dial
  PROVE  Smooth'
<1>1. /\ phase = "dial" /\ phase' = "check" /\ step = 1 /\ buf = <<>> /\ inbox = <<>>
      /\ UNCHANGED <<step, buf, host, got, spilt, late, inbox, mode, secret, open>>
  BY DEF Dial, Smooth, Tracked, Dialling, Clear
<1>2. Len(wire') = Len(Banner) + 1
  <2> DEFINE p == IF mode = "privileged" THEN "device#" ELSE "device>"  u == <<p>>
             S == BannerLines
  <2>1. wire' = Banner \o u
    BY DEF Dial, Smooth
  <2>2. u \in Seq(S) /\ Len(u) = 1
    BY DEF BannerLines
  <2>3. Banner \in Seq(S)
    BY SessionAssumption
  <2> HIDE DEF u, S
  <2>4. Len(wire') = Len(Banner) + Len(u)
    BY <2>1, <2>2, <2>3, ConcatProperties
  <2>5. QED
    BY <2>2, <2>4
<1>3. Len(buf') + Len(wire') <= Cap
  <2>1. Len(buf') = 0
    BY <1>1, EmptySeq
  <2>2. QED
    BY <1>2, <2>1, FitsFacts DEF Fits
<1>4. OnItsWay'
  BY <1>1, <1>3 DEF OnItsWay, Room
<1>5. QED
  BY <1>1, <1>4 DEF Smooth, Faultless

LEMMA SmoothWrite ==
  ASSUME TypeOK, Smooth, Write
  PROVE  Smooth'
<1>1. /\ phase = "write" /\ phase' = "check" /\ inbox' = Append(inbox, Steps[step])
      /\ UNCHANGED <<step, buf, host, got, spilt, late, wire, mode, secret, open>>
  BY DEF Write, Smooth
<1>2. inbox = <<>> /\ wire = <<>>
  BY <1>1 DEF Smooth, OnItsWay
<1>3. inbox' = <<Steps[step]>>
  BY <1>1, <1>2
<1>4. buf = <<>>
  BY <1>1 DEF TypeOK
<1>5. QED
  BY <1>1, <1>2, <1>3, <1>4 DEF Smooth, OnItsWay, Room, Faultless

LEMMA SmoothRead ==
  ASSUME Fits, TypeOK, Tracked', Smooth, ReadChunk
  PROVE  Smooth'
<1>1. buf \in Seq(Tokens) /\ wire \in Seq(Tokens) /\ step \in Nat
  BY StepIsNat DEF TypeOK
<1>2. PICK n, b : ReadAs(n, b)
  BY <1>1, AfterRead
<1>3. /\ n \in 1..Len(wire) /\ phase = "read" /\ b = buf \o SubSeq(wire, 1, n)
      /\ wire' = SubSeq(wire, n + 1, Len(wire))
      /\ UNCHANGED <<late, inbox, mode, secret, open>>
  BY <1>2 DEF ReadAs
<1>4. /\ Len(wire) \in Nat /\ Len(buf) \in Nat /\ n \in Nat /\ n >= 1 /\ n <= Len(wire)
      /\ wire # <<>>
  <2>1. Len(wire) \in Nat /\ Len(buf) \in Nat /\ n \in Nat /\ n >= 1 /\ n <= Len(wire)
    BY <1>1, <1>3
  <2>2. wire # <<>>
    BY <1>1, <2>1, EmptySeq
  <2>3. QED
    BY <2>1, <2>2
<1>5. /\ inbox = <<>> /\ Len(buf) + Len(wire) <= Room /\ Room \in Nat /\ Room <= Cap
      /\ Cap \in Nat
  BY <1>4, FitsFacts DEF Smooth, OnItsWay, Room
<1>6. Len(b) = Len(buf) + n /\ FromRead(n, b) /\ Len(b) \in DOMAIN b
  <2>1. Len(b) = Len(buf) + n /\ Len(b) \in DOMAIN b
    BY <1>1, <1>3, ReadEnds
  <2>2. FromRead(n, b)
    BY <1>1, <1>3, ReadItems
  <2>3. QED
    BY <2>1, <2>2
<1>7. /\ Len(wire') = Len(wire) - n /\ wire' \in Seq(Tokens)
      /\ \A i \in DOMAIN wire' : n + i \in DOMAIN wire /\ wire'[i] = wire[n + i]
  BY <1>1, <1>3, ReadRest
<1>8. ~(Len(b) > Cap)
  BY <1>4, <1>5, <1>6
<1>9. step = 3 => \A i \in DOMAIN b : b[i] = "device#"
  <2>1. \A j \in 1..n : j \in DOMAIN wire
    BY <1>1, <1>3
  <2>2. QED
    BY <1>6, <2>1 DEF Smooth, OnItsWay, FromRead
<1>10. CASE phase' = "check" /\ buf' = b /\ UNCHANGED <<step, host, got, spilt>>
  <2>1. Len(buf') + Len(wire') <= Room
    BY <1>4, <1>5, <1>6, <1>7, <1>10
  <2>2. OnItsWay'
    BY <1>3, <1>5, <1>7, <1>9, <1>10, <2>1 DEF Smooth, OnItsWay, Room
  <2>3. QED
    BY <1>3, <1>10, <2>2 DEF Smooth, Faultless
<1>11. CASE Accept(b) /\ Matches(b) /\ spilt' = spilt
  <2>1. step \in DOMAIN Steps /\ step >= 1
    BY <1>3, AtStep
  <2>2. ~(step = 3 /\ Fail)
    <3> SUFFICES ASSUME step = 3, Fail PROVE FALSE
      OBVIOUS
    <3>1. EndsPrivileged(b) /\ ~Has(b, {"denied"})
      BY <1>6, <1>9 DEF EndsPrivileged, Has, Hashes
    <3>2. Steps[step] = "secret"
      BY StepCases
    <3>3. phase' \in {"write", "answered"}
      BY <1>11, <3>1, <3>2 DEF Accept, Go
    <3>4. phase' = "failed"
      BY <1>1, <1>3, AfterFail
    <3>5. QED
      BY <3>3, <3>4
  <2>3. /\ buf' = <<>> /\ phase' \in {"write", "answered"}
        /\ got' = [got EXCEPT ![step] = {b[i] : i \in DOMAIN b}]
        /\ \/ step' = step + 1
           \/ step' = 4 /\ step = 1
        /\ step = 1 /\ step' = step + 1 => EnableGiven
        /\ step' \in 1..(Len(Steps) + 1) /\ (phase' = "answered" <=> step' = Len(Steps) + 1)
    <3>1. phase # "answered" /\ Accept(b)
      BY <1>3, <1>11
    <3>2. QED
      BY <2>2, <3>1, AfterAccept
  <2>4. step' \in {2, 3} => secret' = "right" /\ phase' = "write"
    <3>1. Len(Steps) + 1 \notin {2, 3}
      BY StepsFacts
    <3>2. step' = 2 => step = 1 /\ EnableGiven
      BY <1>1, <2>1, <2>3
    <3>3. step' = 3 => step = 2
      BY <1>1, <2>1, <2>3
    <3>4. QED
      BY <1>3, <2>3, <3>1, <3>2, <3>3 DEF Smooth, EnableGiven
  <2>5. phase' = "write" => wire' = <<>>
    <3> SUFFICES ASSUME phase' = "write" PROVE wire' = <<>>
      OBVIOUS
    <3>1. Engaged'
      BY <1>3, <1>11 DEF Smooth, Engaged
    <3>2. CASE step' = 3
      <4>1. step = 2
        BY <1>1, <2>1, <2>3, <3>2
      <4>2. Len(wire') = 0
        BY <1>4, <1>5, <1>7, <4>1 DEF Room
      <4>3. QED
        BY <1>7, <4>2, EmptySeq
    <3>3. CASE step' # 3
      BY <3>1, <3>3 DEF Tracked, Enabling, Replying, Clear
    <3>4. QED
      BY <3>2, <3>3
  <2>6. Len(buf') + Len(wire') <= Room'
    <3>1. Len(buf') = 0
      BY <2>3, EmptySeq
    <3>2. CASE step' \in {2, 3}
      <4>1. Len(wire') = 0
        BY <2>4, <2>5, <3>2, EmptySeq
      <4>2. QED
        BY <3>1, <3>2, <4>1 DEF Room
    <3>3. CASE step' \notin {2, 3}
      <4>1. Room' = Cap
        BY <3>3 DEF Room
      <4>2. QED
        BY <1>4, <1>5, <1>7, <3>1, <4>1
    <3>4. QED
      BY <3>2, <3>3
  <2>7. OnItsWay'
    <3>1. step' = 3 => wire' = <<>>
      BY <2>4, <2>5
    <3>2. QED
      BY <1>3, <1>5, <2>3, <2>5, <2>6, <3>1 DEF OnItsWay
  <2>8. ASSUME NEW k \in DOMAIN Steps PROVE got'[k] # {"error"}
    <3>1. DOMAIN got = DOMAIN Steps
      BY DEF TypeOK
    <3>2. CASE k = step
      <4>1. PICK i \in DOMAIN b : b[i] \in {"Password:", "device>", "device#", "other>", "other#"}
        <5>1. Has(b, {"Password:"}) \/ Has(b, Looked(host))
          BY <1>11 DEF Matches
        <5>2. Looked(host) \subseteq {"device>", "device#", "other>", "other#"}
          BY DEF TypeOK, Looked, Prompts
        <5>3. QED
          BY <5>1, <5>2 DEF Has
      <4>2. b[i] \in got'[k] /\ b[i] # "error"
        BY <2>3, <3>1, <3>2, <4>1
      <4>3. QED
        BY <4>2
    <3>3. CASE k # step
      BY <2>3, <3>1, <3>3 DEF Smooth, Faultless
    <3>4. QED
      BY <3>2, <3>3
  <2>9. Faultless'
    BY <2>3, <2>8 DEF Faultless
  <2>10. QED
    BY <1>3, <1>11, <2>4, <2>7, <2>9 DEF Smooth
<1>12. QED
  BY <1>2, <1>8, <1>10, <1>11 DEF ReadAs

LEMMA SmoothReply ==
  ASSUME Fits, TypeOK, Tracked, Asking, Smooth, Reply
  PROVE  Smooth'
<1>1. inbox # <<>> /\ inbox' = Tail(inbox) /\ UNCHANGED <<client, late, secret, open>>
  BY AfterReply
<1>2. /\ inbox = <<Steps[step]>> /\ buf = <<>> /\ wire = <<>>
      /\ phase \notin {"dial", "write", "answered", "failed"}
  BY <1>1 DEF Smooth, OnItsWay, Faultless
<1>3. inbox' = <<>> /\ Head(inbox) = Steps[step] /\ 1 \in DOMAIN inbox /\ inbox[1] = Steps[step]
  BY <1>1, <1>2
<1>4. Engaged /\ step \in DOMAIN Steps
  <2>1. Engaged
    BY <1>2 DEF Smooth, Engaged, TypeOK
  <2>2. QED
    BY <1>2, <2>1, AtStep
<1>5. step # 1
  BY <1>1, <1>4 DEF Tracked, LoggingIn
<1>6. wire \in Seq(Tokens) /\ mode \in {"exec", "password", "privileged"} /\ Len(buf) = 0
      /\ Len(wire) = 0
  BY <1>2, EmptySeq DEF TypeOK
<1>7. ASSUME Len(wire') <= Room, Len(wire') \in Nat,
             step = 3 => \A i \in DOMAIN wire' : wire'[i] = "device#"
      PROVE  Smooth'
  <2>1. Len(buf) + Len(wire') <= Room
    <3>1. Room \in Nat
      BY FitsFacts DEF Room
    <3>2. QED
      BY <1>6, <1>7, <3>1
  <2>2. OnItsWay'
    BY <1>1, <1>2, <1>3, <1>7, <2>1 DEF OnItsWay, Room, client
  <2>3. QED
    BY <1>1, <2>2 DEF Smooth, Faultless, client
<1>8. CASE step = 2
  <2>1. mode = "exec" /\ Head(inbox) = "enable"
    BY <1>1, <1>3, <1>4, <1>8, StepCases DEF Tracked, Enabling
  <2>2. wire' = <<"Password:">>
    <3>1. Says(<<"Password:">>, "password")
      BY <1>8, <2>1 DEF Reply, TakePassword, AskPassword, Show, Smooth
    <3>2. wire' = wire \o <<"Password:">>
      BY <3>1 DEF Says
    <3>3. QED
      BY <1>2, <3>2
  <2>3. QED
    BY <1>7, <1>8, <2>2 DEF Room
<1>9. CASE step = 3
  <2>1. mode = "password"
    BY <1>3, <1>9, StepCases DEF Asking
  <2>2. wire' = <<"device#">>
    <3>1. Says(<<"device#">>, "privileged")
      BY <1>9, <2>1 DEF Reply, TakePassword, AskPassword, Show, Smooth
    <3>2. wire' = wire \o <<"device#">>
      BY <3>1 DEF Says
    <3>3. QED
      BY <1>2, <3>2
  <2>3. QED
    BY <1>7, <1>9, <2>2 DEF Room
<1>10. CASE step \notin {2, 3}
  <2>1. mode # "password" /\ Head(inbox) # "enable"
    BY <1>3, <1>4, <1>10, StepCases DEF Tracked, Replying
  <2>2. Show
    BY <2>1 DEF Reply, TakePassword, AskPassword
  <2>3. Len(wire') <= Len(wire) + (MaxBody + 1) /\ Len(wire') \in Nat
    BY <1>1, <2>2, ShowsPrompt
  <2>4. Len(wire') <= Room
    BY <1>6, <1>10, <2>3, FitsFacts DEF Room, Fits
  <2>5. QED
    BY <1>7, <1>10, <2>3, <2>4
<1>11. QED
  BY <1>8, <1>9, <1>10

(***************************************************************************)
(* The safety half of Served: where nothing breaks, the banner is quiet    *)
(* and the replies fit the buffer, a session with the right password, or   *)
(* none, never fails and leaves no block with an error, however the reads  *)
(* are cut.  That its client gets on is OwedCorrect.                       *)
(***************************************************************************)
THEOREM FaultlessCorrect ==
  ASSUME QuietBanner, Fits, Faults \subseteq {"silence"}
  PROVE  Spec => [](secret \in {"right", "unused"} => Faultless)
<1> DEFINE IInv == secret \in {"right", "unused"} => Smooth
<1>1. Init => Asking /\ IInv
  <2> SUFFICES ASSUME Init, secret \in {"right", "unused"} PROVE Asking /\ Smooth
    <3>1. Init => Asking
      BY AskingInit
    <3>2. QED
      BY <3>1
  <2>1. /\ phase = "dial" /\ step = 1 /\ buf = <<>> /\ wire = <<>> /\ inbox = <<>>
        /\ got = [n \in DOMAIN Steps |-> {}] /\ open /\ ~late /\ spilt = 0
    BY DEF Init
  <2>2. Len(buf) + Len(wire) <= Room
    <3>1. Len(buf) = 0 /\ Len(wire) = 0
      BY <2>1, EmptySeq
    <3>2. QED
      BY <2>1, <3>1, FitsFacts DEF Room
  <2>3. OnItsWay /\ Faultless
    BY <2>1, <2>2 DEF OnItsWay, Faultless
  <2>4. QED
    BY <2>1, <2>3, AskingInit DEF Smooth
<1>2. [Next]_vars => [Next /\ ~GiveUp]_vars
  BY DEF GiveUp
<1>3. TypeOK /\ Asking /\ [Next]_vars => Asking'
  BY <1>2, AskingStep
<1>4. TypeOK /\ Tracked /\ Tracked' /\ Asking /\ IInv /\ [Next]_vars => IInv'
  <2> SUFFICES ASSUME TypeOK, Tracked, Tracked', Asking, IInv, [Next]_vars,
                      secret' \in {"right", "unused"}
               PROVE  Smooth'
    OBVIOUS
  <2>1. secret' = secret
    BY DEF Next, ClientStep, Dial, Write, Check, ReadChunk, ReadEnd, Expire, Reply, GiveUp,
           Close, vars, device
  <2>2. Smooth
    BY <2>1
  <2>3. CASE Dial
    BY <2>2, <2>3, SmoothDial
  <2>4. CASE Write
    BY <2>2, <2>4, SmoothWrite
  <2>5. CASE Check
    <3>1. phase' = "read" /\ UNCHANGED <<step, buf, host, got, spilt, late, device>>
      BY <2>2, <2>5 DEF Check, Smooth
    <3>2. QED
      BY <2>2, <3>1 DEF Smooth, Faultless, OnItsWay, Room, device
  <2>6. CASE ReadChunk
    BY <2>2, <2>6, SmoothRead
  <2>7. CASE ReadEnd \/ Expire \/ GiveUp \/ Close
    BY <2>2, <2>7 DEF ReadEnd, Expire, GiveUp, Close, Smooth
  <2>8. CASE Reply
    BY <2>2, <2>8, SmoothReply
  <2>9. CASE UNCHANGED vars
    BY <2>2, <2>9 DEF vars, client, device, Smooth, Faultless, OnItsWay, Room
  <2>10. QED
    BY <2>3, <2>4, <2>5, <2>6, <2>7, <2>8, <2>9 DEF Next, ClientStep
<1>5. IInv => (secret \in {"right", "unused"} => Faultless)
  BY DEF Smooth
<1> HIDE DEF IInv
<1>6. QED
  BY <1>1, <1>3, <1>4, <1>5, TypeCorrect, TrackedCorrect, PTL DEF Spec
===========================================================================
