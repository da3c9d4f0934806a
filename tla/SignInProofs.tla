---------------------------- MODULE SignInProofs ----------------------------
(***************************************************************************)
(* Theorems about SignIn, for any phones, tokens, routes, limits and       *)
(* numbers of requests.                                                    *)
(***************************************************************************)
EXTENDS SignIn, TLAPS

USE SignInAssumption

----------------------------------------------------------------------------
(* Type correctness.  An attempt is counted from below the limit.          *)

TypeInv ==
  /\ TypeOK
  /\ \A w \in Worker : req[w].op \in {"match", "count"} => req[w].n < MaxAttempts

LEMMA InitTypeInv == Init => TypeInv
<1> SUFFICES ASSUME Init PROVE TypeInv
  OBVIOUS
<1>1. req \in [Worker -> Request] /\ \A w \in Worker : req[w].op = "idle"
  BY DEF Init, Request, Idle
<1>2. account \in [Phone -> UserStatus \cup {"NONE"}]
  BY DEF Init, UserStatus
<1> QED
  BY <1>1, <1>2 DEF Init, TypeInv, TypeOK

\* What a request may be.
LEMMA Requests ==
  /\ Idle \in Request
  /\ \A r \in Routes, n \in Nat \ {0} :
       /\ [op |-> "opening", r |-> r, n |-> n] \in Request
       /\ [op |-> "counted", r |-> r, n |-> n] \in Request
  /\ \A p \in Phone :
       /\ [op |-> "send", p |-> p] \in Request /\ [op |-> "sent", p |-> p] \in Request
       /\ [op |-> "deliver", p |-> p] \in Request /\ [op |-> "void", p |-> p] \in Request
       /\ [op |-> "accept", p |-> p] \in Request /\ [op |-> "enter", p |-> p] \in Request
  /\ \A p \in Phone, n \in Nat :
       /\ [op |-> "match", p |-> p, n |-> n] \in Request
       /\ [op |-> "count", p |-> p, n |-> n] \in Request
  /\ \A t \in Token : [op |-> "rotate", t |-> t] \in Request
  /\ \A p \in Phone, s \in Token \cup {"signIn"} :
       [op |-> "issue", p |-> p, from |-> s] \in Request
BY DEF Request

\* What a request in flight remembers.
LEMMA RequestParts ==
  ASSUME TypeOK, NEW w \in Worker
  PROVE  /\ req[w].op \in {"opening", "counted"} => req[w].r \in Routes /\ req[w].n \in Nat \ {0}
         /\ req[w].op \in {"send", "sent", "deliver", "void", "accept", "enter", "match",
                           "count", "issue"} => req[w].p \in Phone
         /\ req[w].op \in {"match", "count"} => req[w].n \in Nat
         /\ req[w].op = "rotate" => req[w].t \in Token
         /\ req[w].op = "issue" => req[w].from \in Token \cup {"signIn"}
BY DEF TypeOK, Request, Idle

\* A step that gives one worker another request.
LEMMA Given ==
  ASSUME TypeInv, NEW w \in Worker, NEW q \in Request, req' = [req EXCEPT ![w] = q],
         q.op \in {"match", "count"} => q.n < MaxAttempts
  PROVE  /\ req' \in [Worker -> Request]
         /\ \A v \in Worker : req'[v].op \in {"match", "count"} => req'[v].n < MaxAttempts
         /\ \A v \in Worker : req'[v] = IF v = w THEN q ELSE req[v]
BY DEF TypeInv, TypeOK

LEMMA GuardTypeInv ==
  ASSUME TypeInv, NEW w \in Worker, GuardStep(w)
  PROVE  TypeInv'
<1> USE DEF otpVars, tokenVars, windowVars
<1>1. ASSUME NEW r \in Routes, GuardCount(w, r) PROVE TypeInv'
  <2>1. Incremented(r) \in Nat \ {0}
    BY DEF Incremented, TypeInv, TypeOK
  <2> DEFINE q == [op |-> IF OpensWindow(r, Incremented(r)) THEN "opening" ELSE "counted",
                   r |-> r, n |-> Incremented(r)]
  <2>2. q \in Request /\ q.op \notin {"match", "count"}
    BY <2>1, Requests
  <2>3. req' = [req EXCEPT ![w] = q]
    BY <1>1 DEF GuardCount, Begin
  <2>4. /\ req' \in [Worker -> Request]
        /\ \A v \in Worker : req'[v].op \in {"match", "count"} => req'[v].n < MaxAttempts
    <3> HIDE DEF q
    <3> QED  BY <2>2, <2>3, Given
  <2>5. window' \in [Routes -> Nat]
    BY <1>1, <2>1 DEF GuardCount, TypeInv, TypeOK
  <2> QED
    BY <1>1, <2>4, <2>5 DEF GuardCount, TypeInv, TypeOK
<1>2. ASSUME GuardOpen(w) PROVE TypeInv'
  <2> DEFINE q == [op |-> "counted", r |-> req[w].r, n |-> req[w].n]
  <2>1. req[w].r \in Routes /\ req[w].n \in Nat \ {0}
    BY <1>2, RequestParts DEF GuardOpen, Running, TypeInv
  <2>2. q \in Request /\ q.op \notin {"match", "count"}
    BY <2>1, Requests
  <2>3. req' = [req EXCEPT ![w] = q]
    BY <1>2 DEF GuardOpen, Continue
  <2>4. /\ req' \in [Worker -> Request]
        /\ \A v \in Worker : req'[v].op \in {"match", "count"} => req'[v].n < MaxAttempts
    <3> HIDE DEF q
    <3> QED  BY <2>2, <2>3, Given
  <2> QED
    BY <1>2, <2>1, <2>4 DEF GuardOpen, TypeInv, TypeOK
<1> QED
  BY <1>1, <1>2 DEF GuardStep

LEMMA SendTypeInv ==
  ASSUME TypeInv, NEW w \in Worker, SendStep(w)
  PROVE  TypeInv'
<1> USE DEF otpVars, tokenVars, windowVars
<1>1. ASSUME NEW p \in Phone, SendRead(w, p) PROVE TypeInv'
  <2>1. /\ req' \in [Worker -> Request]
        /\ \A v \in Worker : req'[v].op \in {"match", "count"} => req'[v].n < MaxAttempts
    BY <1>1, Requests, Given DEF SendRead, Continue
  <2> QED
    BY <1>1, <2>1 DEF SendRead, TypeInv, TypeOK
<1>2. ASSUME SendStore(w) \/ SendReset(w) PROVE TypeInv'
  <2>1. req[w].p \in Phone
    BY <1>2, RequestParts DEF SendStore, SendReset, Running, TypeInv
  <2>2. /\ req' \in [Worker -> Request]
        /\ \A v \in Worker : req'[v].op \in {"match", "count"} => req'[v].n < MaxAttempts
    BY <1>2, <2>1, Requests, Given DEF SendStore, SendReset, Continue
  <2>3. attempts' \in [Phone -> 0 .. MaxAttempts]
    BY <1>2, <2>1 DEF SendStore, SendReset, TypeInv, TypeOK
  <2>4. guesses' \in [Phone -> Nat] /\ matches' \in [Phone -> Nat]
    BY <1>2, <2>1 DEF SendStore, SendReset, TypeInv, TypeOK
  <2>5. /\ otp' \subseteq Phone /\ cooling' \subseteq Phone
        /\ older' \subseteq Phone /\ loose' \subseteq Phone
    BY <1>2, <2>1 DEF SendStore, SendReset, TypeInv, TypeOK
  <2> QED
    BY <1>2, <2>2, <2>3, <2>4, <2>5 DEF SendStore, SendReset, TypeInv, TypeOK
<1>3. ASSUME NEW delivered \in BOOLEAN, SendDeliver(w, delivered) PROVE TypeInv'
  <2>1. /\ req' \in [Worker -> Request]
        /\ \A v \in Worker : req'[v].op \in {"match", "count"} => req'[v].n < MaxAttempts
    BY <1>3, Requests, Given DEF SendDeliver, Finish, Continue, Idle
  <2>2. cooling' \subseteq Phone
    BY <1>3 DEF SendDeliver, TypeInv, TypeOK
  <2> QED
    BY <1>3, <2>1, <2>2 DEF SendDeliver, TypeInv, TypeOK
<1> QED
  BY <1>1, <1>2, <1>3 DEF SendStep

\* The histories of an OTP after some phones became loose.
LEMMA LoosenType ==
  ASSUME TypeInv, NEW S \in SUBSET Phone, Loosen(S)
  PROVE  /\ loose' \subseteq Phone
         /\ guesses' \in [Phone -> Nat] /\ matches' \in [Phone -> Nat]
  BY DEF Loosen, TypeInv, TypeOK

LEMMA Undisturbed ==
  ASSUME NEW S, Loosen(S), NEW p \in Phone, p \notin loose'
  PROVE  guesses'[p] = guesses[p] /\ matches'[p] = matches[p]
  BY DEF Loosen

LEMMA VerifyTypeInv ==
  ASSUME TypeInv, NEW w \in Worker, VerifyStep(w)
  PROVE  TypeInv'
<1> USE DEF otpVars, tokenVars, windowVars
<1>1. ASSUME NEW p \in Phone, VerifyRead(w, p) PROVE TypeInv'
  <2>1. attempts[p] \in Nat /\ (Exhausted(p) \/ attempts[p] < MaxAttempts)
    BY DEF Exhausted, TypeInv, TypeOK
  <2>2. /\ req' \in [Worker -> Request]
        /\ \A v \in Worker : req'[v].op \in {"match", "count"} => req'[v].n < MaxAttempts
    <3>1. CASE Exhausted(p)
      BY <1>1, <3>1, Requests, Given DEF VerifyRead, Continue
    <3>2. CASE ~Exhausted(p)
      BY <1>1, <2>1, <3>2, Requests, Given DEF VerifyRead, Continue
    <3> QED
      BY <3>1, <3>2
  <2>3. /\ loose' \subseteq Phone
        /\ guesses' \in [Phone -> Nat] /\ matches' \in [Phone -> Nat]
    BY <1>1, LoosenType DEF VerifyRead
  <2> QED
    BY <1>1, <2>2, <2>3 DEF VerifyRead, TypeInv, TypeOK
<1>2. ASSUME MatchRight(w) PROVE TypeInv'
  <2>1. req[w].p \in Phone
    BY <1>2, RequestParts DEF MatchRight, Running, TypeInv
  <2>2. /\ req' \in [Worker -> Request]
        /\ \A v \in Worker : req'[v].op \in {"match", "count"} => req'[v].n < MaxAttempts
    BY <1>2, <2>1, Requests, Given DEF MatchRight, Continue
  <2>3. matches' \in [Phone -> Nat]
    BY <1>2, <2>1 DEF MatchRight, Tally, TypeInv, TypeOK
  <2> QED
    BY <1>2, <2>2, <2>3 DEF MatchRight, TypeInv, TypeOK
<1>3. ASSUME MatchWrong(w) PROVE TypeInv'
  <2>1. req[w].p \in Phone /\ req[w].n \in Nat /\ req[w].n < MaxAttempts
    BY <1>3, RequestParts DEF MatchWrong, Running, TypeInv
  <2>2. /\ req' \in [Worker -> Request]
        /\ \A v \in Worker : req'[v].op \in {"match", "count"} => req'[v].n < MaxAttempts
    BY <1>3, <2>1, Requests, Given DEF MatchWrong, Continue
  <2>3. guesses' \in [Phone -> Nat]
    BY <1>3, <2>1 DEF MatchWrong, Tally, TypeInv, TypeOK
  <2> QED
    BY <1>3, <2>2, <2>3 DEF MatchWrong, TypeInv, TypeOK
<1>4. ASSUME CountGuess(w) PROVE TypeInv'
  <2>1. req[w].p \in Phone /\ req[w].n \in Nat /\ req[w].n < MaxAttempts
    BY <1>4, RequestParts DEF CountGuess, Running, TypeInv
  <2>2. /\ req' \in [Worker -> Request]
        /\ \A v \in Worker : req'[v].op \in {"match", "count"} => req'[v].n < MaxAttempts
    BY <1>4, <2>1, Requests, Given DEF CountGuess, Continue, Idle
  <2>3. attempts' \in [Phone -> 0 .. MaxAttempts]
    BY <1>4, <2>1 DEF CountGuess, NewAttempts, TypeInv, TypeOK
  <2> QED
    BY <1>4, <2>2, <2>3 DEF CountGuess, TypeInv, TypeOK
<1>5. ASSUME Invalidate(w) \/ Accept(w) PROVE TypeInv'
  <2>1. req[w].p \in Phone
    BY <1>5, RequestParts DEF Invalidate, Accept, Running, TypeInv
  <2>2. /\ req' \in [Worker -> Request]
        /\ \A v \in Worker : req'[v].op \in {"match", "count"} => req'[v].n < MaxAttempts
    BY <1>5, <2>1, Requests, Given DEF Invalidate, Accept, Finish, Continue, Idle
  <2>3. attempts' \in [Phone -> 0 .. MaxAttempts]
    BY <1>5, <2>1 DEF Invalidate, Accept, Forget, ForgetUsed, TypeInv, TypeOK
  <2>4. otp' \subseteq Phone /\ cooling' \subseteq Phone /\ older' \subseteq Phone
    BY <1>5 DEF Invalidate, Accept, Forget, ForgetUsed, TypeInv, TypeOK
  <2> QED
    BY <1>5, <2>2, <2>3, <2>4 DEF Invalidate, Accept, TypeInv, TypeOK
<1>6. ASSUME Enter(w) PROVE TypeInv'
  <2>1. req[w].p \in Phone
    BY <1>6, RequestParts DEF Enter, Running, TypeInv
  <2>2. /\ req' \in [Worker -> Request]
        /\ \A v \in Worker : req'[v].op \in {"match", "count"} => req'[v].n < MaxAttempts
    BY <1>6, <2>1, Requests, Given DEF Enter, Continue
  <2>3. account' \in [Phone -> UserStatus \cup {"NONE"}]
    BY <1>6, <2>1 DEF Enter, UserStatus, TypeInv, TypeOK
  <2> QED
    BY <1>6, <2>2, <2>3 DEF Enter, TypeInv, TypeOK
<1> QED
  BY <1>1, <1>2, <1>3, <1>4, <1>5, <1>6 DEF VerifyStep

LEMMA TokenTypeInv ==
  ASSUME TypeInv, NEW w \in Worker, TokenStep(w)
  PROVE  TypeInv'
<1> USE DEF otpVars, tokenVars, windowVars
<1>1. ASSUME NEW t \in Token, StoreToken(w, t) PROVE TypeInv'
  <2>1. req[w].p \in Phone /\ req[w].from \in Token \cup {"signIn"}
    BY <1>1, RequestParts DEF StoreToken, Running, TypeInv
  <2>2. /\ req' \in [Worker -> Request]
        /\ \A v \in Worker : req'[v].op \in {"match", "count"} => req'[v].n < MaxAttempts
    BY <1>1, Requests, Given DEF StoreToken, Finish, Continue, Idle
  <2>3. origin' \in [Token -> Token] /\ holder' \in [Token -> Phone]
    BY <1>1, <2>1 DEF StoreToken, TypeInv, TypeOK
  <2>4. live' \subseteq used' /\ used' \subseteq Token
    BY <1>1 DEF StoreToken, TypeInv, TypeOK
  <2> QED
    BY <1>1, <2>2, <2>3, <2>4 DEF StoreToken, TypeInv, TypeOK
<1>2. ASSUME NEW t \in Token, RefreshRead(w, t) PROVE TypeInv'
  <2>1. /\ req' \in [Worker -> Request]
        /\ \A v \in Worker : req'[v].op \in {"match", "count"} => req'[v].n < MaxAttempts
    BY <1>2, Requests, Given DEF RefreshRead, Continue
  <2>2. shared' \subseteq Token
    BY <1>2 DEF RefreshRead, Share, TypeInv, TypeOK
  <2> QED
    BY <1>2, <2>1, <2>2 DEF RefreshRead, TypeInv, TypeOK
<1>3. ASSUME RefreshDelete(w) PROVE TypeInv'
  <2>1. req[w].t \in Token
    BY <1>3, RequestParts DEF RefreshDelete, Running, TypeInv
  <2>2. holder[req[w].t] \in Phone /\ origin[req[w].t] \in Token
    BY <2>1 DEF TypeInv, TypeOK
  <2>3. /\ req' \in [Worker -> Request]
        /\ \A v \in Worker : req'[v].op \in {"match", "count"} => req'[v].n < MaxAttempts
    BY <1>3, <2>2, Requests, Given DEF RefreshDelete, Continue
  <2> QED
    BY <1>3, <2>1, <2>3 DEF RefreshDelete, TypeInv, TypeOK
<1> QED
  BY <1>1, <1>2, <1>3 DEF TokenStep

LEMMA OtherTypeInv ==
  ASSUME TypeInv,
         \/ \E w \in Worker : Abort(w)
         \/ \E t \in Token : Logout(t)
         \/ \E p \in Phone : UpdateStatus(p)
         \/ Expiry
  PROVE  TypeInv'
<1> USE DEF otpVars, tokenVars, windowVars
<1>1. ASSUME NEW w \in Worker, Abort(w) PROVE TypeInv'
  <2>1. /\ req' \in [Worker -> Request]
        /\ \A v \in Worker : req'[v].op \in {"match", "count"} => req'[v].n < MaxAttempts
    BY <1>1, Requests, Given DEF Abort, Finish, Continue, Idle
  <2>2. /\ loose' \subseteq Phone
        /\ guesses' \in [Phone -> Nat] /\ matches' \in [Phone -> Nat]
    <3> DEFINE S == IF req[w].op \in {"count", "accept"} THEN {req[w].p} ELSE {}
    <3>1. S \subseteq Phone
      BY RequestParts DEF TypeInv
    <3>2. Loosen(S)
      BY <1>1 DEF Abort
    <3> QED
      BY <3>1, <3>2, LoosenType
  <2>3. orphaned' \subseteq Routes
    BY <1>1, RequestParts DEF Abort, Running, TypeInv, TypeOK
  <2> QED
    BY <1>1, <2>1, <2>2, <2>3 DEF Abort, TypeInv, TypeOK
<1>2. ASSUME NEW t \in Token, Logout(t) PROVE TypeInv'
  <2>1. ended' \subseteq Token /\ shared' \subseteq Token
    BY <1>2 DEF Logout, Share, TypeInv, TypeOK
  <2> QED
    BY <1>2, <2>1 DEF Logout, TypeInv, TypeOK
<1>3. ASSUME NEW p \in Phone, UpdateStatus(p) PROVE TypeInv'
  BY <1>3 DEF UpdateStatus, UserStatus, TypeInv, TypeOK
<1>4. ASSUME NEW p \in Phone, OtpExpires(p) \/ CooldownExpires(p) \/ CounterExpires(p)
      PROVE  TypeInv'
  <2>1. otp' \subseteq Phone /\ cooling' \subseteq Phone /\ older' \subseteq Phone
    BY <1>4 DEF OtpExpires, CooldownExpires, CounterExpires, TypeInv, TypeOK
  <2>2. attempts' \in [Phone -> 0 .. MaxAttempts]
    BY <1>4 DEF OtpExpires, CooldownExpires, CounterExpires, TypeInv, TypeOK
  <2> QED
    BY <1>4, <2>1, <2>2 DEF OtpExpires, CooldownExpires, CounterExpires, TypeInv, TypeOK
<1>5. ASSUME NEW t \in Token, TokenExpires(t) PROVE TypeInv'
  BY <1>5 DEF TokenExpires, TypeInv, TypeOK
<1>6. ASSUME NEW r \in Routes, WindowExpires(r) PROVE TypeInv'
  BY <1>6 DEF WindowExpires, TypeInv, TypeOK
<1> QED
  BY <1>1, <1>2, <1>3, <1>4, <1>5, <1>6 DEF Expiry

LEMMA NextTypeInv == TypeInv /\ [Next]_vars => TypeInv'
<1> SUFFICES ASSUME TypeInv, [Next]_vars PROVE TypeInv'
  OBVIOUS
<1>1. CASE UNCHANGED vars
  BY <1>1 DEF TypeInv, TypeOK, vars, otpVars, tokenVars, windowVars
<1> QED
  BY <1>1, GuardTypeInv, SendTypeInv, VerifyTypeInv, TokenTypeInv, OtherTypeInv DEF Next

(* Together with the types: no attempt is counted from the limit.          *)
THEOREM TypeInvHolds == Spec => []TypeInv
<1> QED
  BY InitTypeInv, NextTypeInv, PTL DEF Spec

(* The types of the keys in Redis, of the accounts and of the requests;    *)
(* above all, no counter of attempts exceeds the limit, however requests   *)
(* interleave (verifyOtp): TypeOK.                                         *)
THEOREM TypeCorrect == Spec => []TypeOK
<1>1. TypeInv => TypeOK
  BY DEF TypeInv
<1> QED
  BY <1>1, TypeInvHolds, PTL

----------------------------------------------------------------------------
(* Rate limit windows.                                                     *)

LEMMA InitWindowsEnd == Init => WindowsEnd
  BY DEF Init, WindowsEnd

\* Steps of a request that does not open a window, and of none.
LEMMA WindowUntouched ==
  ASSUME TypeInv, WindowsEnd, UNCHANGED windowVars,
         \A v \in Worker : req[v].op = "opening" => req'[v] = req[v]
  PROVE  WindowsEnd'
<1>1. window' = window /\ closing' = closing /\ orphaned' = orphaned
  BY DEF windowVars
<1>2. ASSUME NEW r \in Routes, NEW w \in Worker, Running(w, "opening"), req[w].r = r
      PROVE  Running(w, "opening")' /\ req'[w].r = r
  BY <1>2 DEF Running
<1> QED
  BY <1>1, <1>2 DEF WindowsEnd

LEMMA NextWindowsEnd == TypeInv /\ WindowsEnd /\ [Next]_vars => WindowsEnd'
<1> SUFFICES ASSUME TypeInv, WindowsEnd, [Next]_vars PROVE WindowsEnd'
  OBVIOUS
<1>1. ASSUME NEW w \in Worker, NEW r \in Routes, GuardCount(w, r) PROVE WindowsEnd'
  <2> DEFINE q == [op |-> IF OpensWindow(r, Incremented(r)) THEN "opening" ELSE "counted",
                   r |-> r, n |-> Incremented(r)]
  <2>1. /\ req[w].op = "idle"
        /\ \A v \in Worker : req'[v] = IF v = w THEN q ELSE req[v]
    BY <1>1 DEF GuardCount, Begin, Idle, TypeInv, TypeOK
  <2>2. /\ \A s \in Routes : s # r => window'[s] = window[s]
        /\ closing' = closing /\ orphaned' = orphaned
    BY <1>1 DEF GuardCount, TypeInv, TypeOK
  <2>3. Incremented(r) = 1 \/ window[r] # 0
    BY DEF Incremented, TypeInv, TypeOK
  <2>4. CASE Incremented(r) = 1
    <3>1. req'[w].op = "opening" /\ req'[w].r = r
      BY <2>1, <2>4 DEF OpensWindow
    <3>2. \A v \in Worker : req[v].op = "opening" => req'[v] = req[v]
      BY <2>1
    <3>3. ASSUME NEW s \in Routes, s # r
          PROVE  \/ window'[s] = 0 \/ s \in closing' \/ s \in orphaned'
                 \/ \E v \in Worker : req'[v].op = "opening" /\ req'[v].r = s
      <4>1. CASE \E v \in Worker : req[v].op = "opening" /\ req[v].r = s
        BY <3>2, <4>1
      <4>2. CASE window[s] = 0 \/ s \in closing \/ s \in orphaned
        BY <2>2, <3>3, <4>2
      <4> QED
        BY <4>1, <4>2 DEF WindowsEnd, Running
    <3> QED
      BY <3>1, <3>3 DEF WindowsEnd, Running
  <2>5. CASE window[r] # 0
    <3>1. \A v \in Worker : req[v].op = "opening" => req'[v] = req[v]
      BY <2>1
    <3> QED
      BY <2>2, <2>5, <3>1 DEF WindowsEnd, Running
  <2> QED
    BY <2>3, <2>4, <2>5
<1>2. ASSUME NEW w \in Worker, GuardOpen(w) PROVE WindowsEnd'
  <2>1. \A v \in Worker : v # w => req'[v] = req[v]
    BY <1>2 DEF GuardOpen, Continue, TypeInv, TypeOK
  <2> QED
    BY <1>2, <2>1 DEF GuardOpen, WindowsEnd, Running
<1>3. ASSUME NEW w \in Worker, SendStep(w) \/ VerifyStep(w) \/ TokenStep(w)
      PROVE  WindowsEnd'
  <2>1. UNCHANGED windowVars
    BY <1>3 DEF SendStep, SendRead, SendStore, SendReset, SendDeliver, VerifyStep, VerifyRead,
      MatchRight, MatchWrong, CountGuess, Invalidate, Accept, Enter, TokenStep, StoreToken,
      RefreshRead, RefreshDelete
  <2>2. req[w].op # "opening"
    <3>1. \A r : Admitted(w, r) => req[w].op \in {"counted", "idle"}
      BY DEF Admitted, Running, Idle
    <3>2. CASE SendStep(w)
      BY <3>1, <3>2 DEF SendStep, SendRead, SendStore, SendReset, SendDeliver, Running
    <3>3. CASE VerifyStep(w)
      BY <3>1, <3>3 DEF VerifyStep, VerifyRead, MatchRight, MatchWrong, CountGuess,
        Invalidate, Accept, Enter, Running
    <3>4. CASE TokenStep(w)
      BY <3>1, <3>4 DEF TokenStep, StoreToken, RefreshRead, RefreshDelete, Running
    <3> QED
      BY <1>3, <3>2, <3>3, <3>4
  <2>3. \E q : req' = [req EXCEPT ![w] = q]
    <3>1. CASE SendStep(w)
      BY <3>1 DEF SendStep, SendRead, SendStore, SendReset, SendDeliver, Continue, Finish
    <3>2. CASE VerifyStep(w)
      BY <3>2 DEF VerifyStep, VerifyRead, MatchRight, MatchWrong, CountGuess, Invalidate,
        Accept, Enter, Continue, Finish
    <3>3. CASE TokenStep(w)
      BY <3>3 DEF TokenStep, StoreToken, RefreshRead, RefreshDelete, Continue, Finish
    <3> QED
      BY <1>3, <3>1, <3>2, <3>3
  <2>4. \A v \in Worker : v # w => req'[v] = req[v]
    BY <2>3 DEF TypeInv, TypeOK
  <2> QED
    BY <2>1, <2>2, <2>4, WindowUntouched
<1>4. ASSUME NEW w \in Worker, Abort(w) PROVE WindowsEnd'
  <2>1. \A v \in Worker : v # w => req'[v] = req[v]
    BY <1>4 DEF Abort, Finish, Continue, TypeInv, TypeOK
  <2>2. /\ window' = window /\ closing' = closing /\ orphaned \subseteq orphaned'
        /\ Running(w, "opening") => req[w].r \in orphaned'
    BY <1>4 DEF Abort
  <2>3. ASSUME NEW r \in Routes, NEW v \in Worker, Running(v, "opening"), req[v].r = r
        PROVE  r \in orphaned' \/ (Running(v, "opening")' /\ req'[v].r = r)
    BY <2>1, <2>2, <2>3 DEF Running
  <2>4. ASSUME NEW r \in Routes
        PROVE  window'[r] = 0 \/ r \in closing' \/ r \in orphaned'
                 \/ \E v \in Worker : Running(v, "opening")' /\ req'[v].r = r
    BY <2>2, <2>3 DEF WindowsEnd
  <2> QED
    BY <2>4 DEF WindowsEnd
<1>5. ASSUME NEW t \in Token, Logout(t) \/ TokenExpires(t) PROVE WindowsEnd'
  BY <1>5, WindowUntouched DEF Logout, TokenExpires
<1>6. ASSUME NEW p \in Phone,
             UpdateStatus(p) \/ OtpExpires(p) \/ CooldownExpires(p) \/ CounterExpires(p)
      PROVE  WindowsEnd'
  BY <1>6, WindowUntouched DEF UpdateStatus, OtpExpires, CooldownExpires, CounterExpires
<1>7. ASSUME NEW r \in Routes, WindowExpires(r) PROVE WindowsEnd'
  BY <1>7 DEF WindowExpires, WindowsEnd, Running, TypeInv, TypeOK
<1>8. CASE UNCHANGED vars
  BY <1>8, WindowUntouched DEF vars
<1> QED
  BY <1>1, <1>2, <1>3, <1>4, <1>5, <1>6, <1>7, <1>8 DEF Next, GuardStep, Expiry

(* A window that counts requests will end, for any routes, limits and      *)
(* numbers of requests, unless the request that opened it died between     *)
(* INCR and EXPIRE (RateLimitGuard.canActivate): WindowsEnd.               *)
THEOREM WindowsClose == Spec => []WindowsEnd
<1> QED
  BY InitWindowsEnd, NextWindowsEnd, TypeInvHolds, PTL DEF Spec

----------------------------------------------------------------------------
(* Sessions.  Of a session that no two requests work on, one token was not *)
(* exchanged yet or one request renews it, and no token of it is valid     *)
(* once it ended.                                                          *)

Issued ==
  /\ \A t \in Token : IF t \in used THEN origin[t] \in used ELSE origin[t] = t
  /\ ended \subseteq used
  /\ exchanged \subseteq used /\ live \cap exchanged = {}
  /\ \A w \in Worker :
       /\ Running(w, "rotate") => req[w].t \in used
       /\ Running(w, "issue") => req[w].from \in used \cup {"signIn"}

\* Tokens not exchanged yet, valid or run out.
Current == used \ exchanged

InOneHand(s) ==
  /\ \A t, u \in Current : origin[t] = s /\ origin[u] = s => t = u
  /\ \A w \in Worker, u \in Current :
       Renewing(w, s) /\ origin[u] = s => Running(w, "rotate") /\ req[w].t = u
  /\ \A v, w \in Worker : Renewing(v, s) /\ Renewing(w, s) => v = w
  /\ s \in ended => /\ \A u \in live : origin[u] # s
                    /\ \A w \in Worker : ~Renewing(w, s)

SessionInv == Issued /\ \A s \in Token \ shared : InOneHand(s)

LEMMA InitSessionInv == Init => SessionInv
<1> SUFFICES ASSUME Init PROVE SessionInv
  OBVIOUS
<1>1. Issued
  BY DEF Init, Issued, Running, Idle
<1>2. \A w \in Worker, s \in Token : ~Renewing(w, s)
  BY DEF Init, Renewing, Running, Idle
<1> QED
  BY <1>1, <1>2 DEF Init, SessionInv, InOneHand, Current

\* Steps that make no token and begin no renewal of a session.
LEMMA SessionsUntouched ==
  ASSUME TypeInv, SessionInv,
         origin' = origin, used' = used, exchanged' = exchanged, ended' = ended,
         shared' = shared,
         live' \subseteq live,
         \A v \in Worker : \/ req'[v] = req[v]
                           \/ req'[v].op \notin {"rotate", "issue"}
                           \/ req'[v].op = "issue" /\ req'[v].from = "signIn"
  PROVE  SessionInv'
<1>1. \A v \in Worker, s \in Token : Renewing(v, s)' => Renewing(v, s) /\ req'[v] = req[v]
  BY DEF Renewing, Running
<1>2. Issued'
  BY DEF SessionInv, Issued, Running
<1>3. ASSUME NEW s \in Token \ shared PROVE InOneHand(s)'
  <2>1. InOneHand(s)
    BY DEF SessionInv
  <2> QED
    BY <1>1, <2>1 DEF InOneHand, Current, Running
<1> QED
  BY <1>2, <1>3 DEF SessionInv

LEMMA RefreshReadSession ==
  ASSUME TypeInv, SessionInv, NEW w \in Worker, NEW t \in Token, RefreshRead(w, t)
  PROVE  SessionInv'
<1>1. /\ \A v \in Worker : req'[v] = IF v = w THEN [op |-> "rotate", t |-> t] ELSE req[v]
      /\ UNCHANGED <<origin, used, exchanged, ended, live>> /\ t \in live /\ t \in Current
  BY DEF RefreshRead, Continue, TypeInv, TypeOK, SessionInv, Issued, Current
<1>2. shared' = IF \E v \in Worker : Renewing(v, origin[t])
                THEN shared \cup {origin[t]} ELSE shared
  BY DEF RefreshRead, Share
<1>3. Issued'
  BY <1>1 DEF SessionInv, Issued, Running, Current
<1>4. ASSUME NEW s \in Token \ shared' PROVE InOneHand(s)'
  <2>1. InOneHand(s)
    BY <1>2 DEF SessionInv
  <2>2. \A v \in Worker : v # w => (Renewing(v, s)' <=> Renewing(v, s))
    BY <1>1 DEF Renewing, Running
  <2>3. Renewing(w, s)' <=> origin[t] = s
    BY <1>1 DEF Renewing, Running
  <2>4. CASE origin[t] = s
    <3>1. \A v \in Worker : ~Renewing(v, s)
      BY <1>2, <2>4
    <3>2. s \notin ended
      BY <1>1, <2>1, <2>4 DEF InOneHand
    <3>3. \A v \in Worker : Renewing(v, s)' => v = w
      BY <2>2, <3>1
    <3>4. Running(w, "rotate")' /\ req'[w].t = t
      BY <1>1 DEF Running
    <3> QED
      BY <1>1, <2>1, <2>4, <3>2, <3>3, <3>4 DEF InOneHand, Current
  <2>5. CASE origin[t] # s
    <3>1. \A v \in Worker : Renewing(v, s)' => Renewing(v, s) /\ req'[v] = req[v]
      BY <1>1, <2>2, <2>3, <2>5
    <3> QED
      BY <1>1, <2>1, <3>1 DEF InOneHand, Current, Running
  <2> QED
    BY <2>4, <2>5
<1> QED
  BY <1>3, <1>4 DEF SessionInv

LEMMA RefreshDeleteSession ==
  ASSUME TypeInv, SessionInv, NEW w \in Worker, RefreshDelete(w)
  PROVE  SessionInv'
<1> DEFINE t == req[w].t
<1>1. Running(w, "rotate") /\ t \in Token /\ t \in used
  BY RequestParts DEF RefreshDelete, Running, TypeInv, SessionInv, Issued
<1>2. /\ \A v \in Worker : v # w => req'[v] = req[v]
      /\ req'[w].op = "issue" /\ req'[w].from = origin[t]
  BY DEF RefreshDelete, Continue, TypeInv, TypeOK
<1>3. /\ UNCHANGED <<origin, used, ended, shared>>
      /\ live' = live \ {t} /\ exchanged' = exchanged \cup {t}
  BY DEF RefreshDelete, Revoked
<1>4. Issued'
  BY <1>1, <1>2, <1>3 DEF SessionInv, Issued, Running
<1>5. ASSUME NEW s \in Token \ shared PROVE InOneHand(s)'
  <2>1. InOneHand(s)
    BY DEF SessionInv
  <2>2. \A v \in Worker : Renewing(v, s)' <=> Renewing(v, s)
    BY <1>1, <1>2, <1>3 DEF Renewing, Running
  <2>3. CASE origin[t] = s
    <3>1. Renewing(w, s)
      BY <1>1, <2>3 DEF Renewing
    <3>2. \A u \in Current' : origin[u] # s
      BY <1>1, <1>3, <2>1, <3>1 DEF InOneHand, Current
    <3> QED
      BY <1>3, <2>1, <2>2, <3>2 DEF InOneHand
  <2>4. CASE origin[t] # s
    <3>1. ~Renewing(w, s)
      BY <1>1, <2>4 DEF Renewing, Running
    <3> QED
      BY <1>2, <1>3, <2>1, <2>2, <3>1 DEF InOneHand, Current, Running
  <2> QED
    BY <2>3, <2>4
<1> QED
  BY <1>3, <1>4, <1>5 DEF SessionInv

LEMMA StoreTokenSession ==
  ASSUME TypeInv, SessionInv, NEW w \in Worker, NEW t \in Token, StoreToken(w, t)
  PROVE  SessionInv'
<1> DEFINE f == req[w].from
<1>1. /\ Running(w, "issue") /\ t \notin used
      /\ used' = used \cup {t} /\ live' = live \cup {t}
      /\ UNCHANGED <<exchanged, ended, shared>>
  BY DEF StoreToken
<1>2. f \in used \cup {"signIn"} /\ f # t
  BY <1>1 DEF SessionInv, Issued
<1>3. \A u \in Token : origin'[u] = IF u = t THEN IF f = "signIn" THEN t ELSE f
                                            ELSE origin[u]
  BY DEF StoreToken, TypeInv, TypeOK
<1>4. /\ \A v \in Worker : v # w => req'[v] = req[v]
      /\ req'[w].op = "idle"
  BY DEF StoreToken, Finish, Continue, Idle, TypeInv, TypeOK
<1>5. /\ live \subseteq used /\ used \subseteq Token
      /\ Current \subseteq used /\ Current' = Current \cup {t}
  BY <1>1 DEF TypeInv, TypeOK, SessionInv, Issued, Current
<1>6. \A u \in used : origin'[u] = origin[u] /\ origin[u] \in used
  BY <1>1, <1>3, <1>5 DEF SessionInv, Issued
<1>7. Issued'
  BY <1>1, <1>2, <1>3, <1>4, <1>5 DEF SessionInv, Issued, Running
<1>8. ASSUME NEW s \in Token \ shared PROVE InOneHand(s)'
  <2>1. InOneHand(s)
    BY DEF SessionInv
  <2>2. \A v \in Worker : Running(v, "rotate") => req[v].t \in used
    BY DEF SessionInv, Issued
  <2>3. \A v \in Worker : Renewing(v, s)' <=> v # w /\ Renewing(v, s)
    BY <1>1, <1>4, <1>6, <2>2 DEF Renewing, Running
  <2>4. CASE f = s
    <3>1. Renewing(w, s)
      BY <1>1, <2>4 DEF Renewing
    <3>2. \A v \in Worker : ~Renewing(v, s)'
      BY <2>1, <2>3, <3>1 DEF InOneHand
    <3>3. \A u \in Current : origin[u] # s
      BY <1>1, <2>1, <3>1 DEF InOneHand, Running
    <3>4. s \notin ended
      BY <2>1, <3>1 DEF InOneHand
    <3>5. \A u \in Current' : origin'[u] = s => u = t
      BY <1>5, <1>6, <3>3
    <3> QED
      BY <1>1, <3>2, <3>4, <3>5 DEF InOneHand
  <2>5. CASE f = "signIn" /\ s = t
    <3>1. \A u \in Current : origin'[u] # s
      BY <1>1, <1>5, <1>6, <2>5
    <3>2. \A v \in Worker : ~Renewing(v, s)
      BY <1>1, <1>6, <2>2, <2>5 DEF Renewing, SessionInv, Issued
    <3>3. s \notin ended
      BY <1>1, <2>5 DEF SessionInv, Issued
    <3> QED
      BY <1>1, <1>5, <2>3, <3>1, <3>2, <3>3 DEF InOneHand
  <2>6. CASE f # s /\ ~(f = "signIn" /\ s = t)
    <3>1. origin'[t] # s
      BY <1>2, <1>3, <2>6
    <3>2. /\ \A u \in live' : origin'[u] = s => u \in live /\ origin[u] = s
          /\ \A u \in Current' : origin'[u] = s => u \in Current /\ origin[u] = s
      BY <1>1, <1>5, <1>6, <3>1
    <3>3. \A v \in Worker : Renewing(v, s)' => Renewing(v, s) /\ req'[v] = req[v]
      BY <1>4, <2>3
    <3> QED
      BY <1>1, <2>1, <3>2, <3>3 DEF InOneHand, Running
  <2> QED
    BY <2>4, <2>5, <2>6
<1> QED
  BY <1>1, <1>7, <1>8 DEF SessionInv

LEMMA LogoutSession ==
  ASSUME TypeInv, SessionInv, NEW t \in Token, Logout(t)
  PROVE  SessionInv'
<1>1. /\ t \in used /\ live' = live \ {t}
      /\ UNCHANGED <<origin, used, exchanged, req>>
  BY DEF Logout
<1>2. CASE t \in exchanged
  <2>1. ended' = ended /\ shared' = shared /\ live' = live
    BY <1>1, <1>2 DEF Logout, SessionInv, Issued
  <2> QED
    BY <1>1, <2>1, SessionsUntouched
<1> SUFFICES ASSUME t \notin exchanged PROVE SessionInv'
  BY <1>2
<1>5. /\ ended' = ended \cup {origin[t]} /\ t \in Current
      /\ shared' = IF \E v \in Worker : Renewing(v, origin[t])
                   THEN shared \cup {origin[t]} ELSE shared
  BY <1>1 DEF Logout, Share, Current
<1>3. Issued'
  BY <1>1, <1>5 DEF SessionInv, Issued, Running, TypeInv, TypeOK
<1>4. ASSUME NEW s \in Token \ shared' PROVE InOneHand(s)'
  <2>1. InOneHand(s)
    BY <1>5 DEF SessionInv
  <2>2. \A v \in Worker : Renewing(v, s)' <=> Renewing(v, s)
    BY <1>1 DEF Renewing, Running
  <2>3. CASE origin[t] = s
    <3>1. \A v \in Worker : ~Renewing(v, s)
      BY <1>5, <2>3
    <3>2. \A u \in live' : origin[u] # s
      <4>1. live \subseteq Current
        BY DEF SessionInv, Issued, Current, TypeInv, TypeOK
      <4> QED
        BY <1>1, <1>5, <2>1, <2>3, <4>1 DEF InOneHand
    <3> QED
      BY <1>1, <2>1, <2>2, <3>1, <3>2 DEF InOneHand, Current
  <2>4. CASE origin[t] # s
    BY <1>1, <1>5, <2>1, <2>2, <2>4 DEF InOneHand, Current, Running
  <2> QED
    BY <2>3, <2>4
<1> QED
  BY <1>3, <1>4 DEF SessionInv

LEMMA NextSessionInv == TypeInv /\ SessionInv /\ [Next]_vars => SessionInv'
<1> SUFFICES ASSUME TypeInv, SessionInv, [Next]_vars PROVE SessionInv'
  OBVIOUS
<1> USE DEF tokenVars
<1>1. ASSUME NEW w \in Worker, GuardStep(w) \/ SendStep(w) \/ VerifyStep(w) \/ Abort(w)
      PROVE  SessionInv'
  <2>1. UNCHANGED tokenVars
    BY <1>1 DEF GuardStep, GuardCount, GuardOpen, SendStep, SendRead, SendStore, SendReset,
      SendDeliver, VerifyStep, VerifyRead, MatchRight, MatchWrong, CountGuess, Invalidate,
      Accept, Enter, Abort
  <2>2. /\ \A v \in Worker : v # w => req'[v] = req[v]
        /\ \/ req'[w].op \notin {"rotate", "issue"}
           \/ req'[w].op = "issue" /\ req'[w].from = "signIn"
    <3>1. CASE GuardStep(w)
      BY <3>1 DEF GuardStep, GuardCount, GuardOpen, Begin, Continue, TypeInv, TypeOK
    <3>2. CASE SendStep(w)
      BY <3>2 DEF SendStep, SendRead, SendStore, SendReset, SendDeliver, Finish, Continue,
        Idle, TypeInv, TypeOK
    <3>3. CASE VerifyStep(w)
      <4> DEFINE Away(r) == \/ r.op \notin {"rotate", "issue"}
                            \/ r.op = "issue" /\ r.from = "signIn"
      <4>1. ASSUME NEW r, Away(r), Continue(w, r)
            PROVE  /\ \A v \in Worker : v # w => req'[v] = req[v]
                   /\ Away(req'[w])
        BY <4>1 DEF Continue, TypeInv, TypeOK
      <4> HIDE DEF Away
      <4>2. \A p, n : /\ Away([op |-> "void", p |-> p])
                      /\ Away([op |-> "match", p |-> p, n |-> n])
                      /\ Away([op |-> "count", p |-> p, n |-> n])
                      /\ Away([op |-> "accept", p |-> p])
                      /\ Away([op |-> "enter", p |-> p])
                      /\ Away([op |-> "issue", p |-> p, from |-> "signIn"])
        BY DEF Away
      <4>3. Away(Idle)
        BY DEF Away, Idle
      <4>4. CASE \E p \in Phone : VerifyRead(w, p)
        BY <4>1, <4>2, <4>4 DEF VerifyRead, Away
      <4>5. CASE MatchRight(w)
        BY <4>1, <4>2, <4>5 DEF MatchRight, Away
      <4>6. CASE MatchWrong(w)
        BY <4>1, <4>2, <4>6 DEF MatchWrong, Away
      <4>7. CASE CountGuess(w)
        BY <4>1, <4>2, <4>3, <4>7 DEF CountGuess, Away
      <4>8. CASE Invalidate(w)
        BY <4>1, <4>3, <4>8 DEF Invalidate, Finish, Away
      <4>9. CASE Accept(w)
        BY <4>1, <4>2, <4>9 DEF Accept, Away
      <4>10. CASE Enter(w)
        BY <4>1, <4>2, <4>10 DEF Enter, Away
      <4> QED
        BY <3>3, <4>4, <4>5, <4>6, <4>7, <4>8, <4>9, <4>10 DEF VerifyStep
    <3>4. CASE Abort(w)
      BY <3>4 DEF Abort, Finish, Continue, Idle, TypeInv, TypeOK
    <3> QED
      BY <1>1, <3>1, <3>2, <3>3, <3>4
  <2>3. /\ origin' = origin /\ used' = used /\ exchanged' = exchanged
        /\ ended' = ended /\ shared' = shared
        /\ live' \subseteq live
    BY <2>1
  <2>4. \A v \in Worker : \/ req'[v] = req[v]
                          \/ req'[v].op \notin {"rotate", "issue"}
                          \/ req'[v].op = "issue" /\ req'[v].from = "signIn"
    BY <2>2
  <2> HIDE DEF tokenVars
  <2> QED
    BY <2>3, <2>4, SessionsUntouched
<1>2. ASSUME NEW w \in Worker, TokenStep(w) PROVE SessionInv'
  BY <1>2, StoreTokenSession, RefreshReadSession, RefreshDeleteSession DEF TokenStep
<1>3. ASSUME NEW p \in Phone,
             UpdateStatus(p) \/ OtpExpires(p) \/ CooldownExpires(p) \/ CounterExpires(p)
      PROVE  SessionInv'
  BY <1>3, SessionsUntouched DEF UpdateStatus, OtpExpires, CooldownExpires, CounterExpires
<1>4. ASSUME NEW t \in Token, TokenExpires(t) PROVE SessionInv'
  BY <1>4, SessionsUntouched DEF TokenExpires
<1>5. ASSUME NEW r \in Routes, WindowExpires(r) PROVE SessionInv'
  BY <1>5, SessionsUntouched DEF WindowExpires
<1>6. CASE UNCHANGED vars
  BY <1>6, SessionsUntouched DEF vars
<1> QED
  BY <1>1, <1>2, <1>3, <1>4, <1>5, <1>6, LogoutSession DEF Next, Expiry

(* A session logged out with a token that was not exchanged has no valid   *)
(* refresh token left, unless two requests renewed or ended it at once,    *)
(* for any number of sessions, renewals, logouts and requests              *)
(* (refreshTokens, logout): LogoutIsFinal.                                 *)
THEOREM LogoutEnds == Spec => []LogoutIsFinal
<1>1. TypeInv /\ SessionInv => LogoutIsFinal
  BY DEF TypeInv, TypeOK, SessionInv, InOneHand, LogoutIsFinal
<1> QED
  BY <1>1, InitSessionInv, NextSessionInv, TypeInvHolds, PTL DEF Spec

----------------------------------------------------------------------------
(* One-time passwords.  While an OTP is handled in turn, its counter is    *)
(* not behind the guesses made at it, but for the guess being counted.     *)

Doing(w, op, p) == Running(w, op) /\ req[w].p = p

InTurn(p) ==
  /\ \A v, w \in Worker : Handling(v, p) /\ Handling(w, p) => v = w
  /\ guesses[p] <= MaxAttempts /\ matches[p] <= 1
  /\ p \in otp => guesses[p] <= attempts[p] \/ \E w \in Worker : Doing(w, "count", p)
  /\ p \in older => guesses[p] = 0 \/ \E w \in Worker : Doing(w, "count", p)
  /\ p \in otp => matches[p] = 0 \/ \E w \in Worker : Doing(w, "accept", p)
  /\ \A w \in Worker :
       /\ Doing(w, "sent", p) => guesses[p] = 0
       /\ Doing(w, "match", p) /\ p \in otp => guesses[p] <= req[w].n
       /\ Doing(w, "count", p) /\ p \in otp => guesses[p] <= req[w].n + 1

OtpInv == \A p \in Phone \ loose : InTurn(p)

LEMMA InitOtpInv == Init => OtpInv
  BY DEF Init, OtpInv, InTurn, Handling, Doing, Running, Idle

\* Steps that concern other phones, or less than an OTP.
LEMMA TurnUntouched ==
  ASSUME NEW p \in Phone, InTurn(p),
         guesses'[p] = guesses[p], matches'[p] = matches[p], attempts'[p] = attempts[p],
         p \in otp' => p \in otp, p \in older' => p \in older,
         \A v \in Worker : Handling(v, p)' => req'[v] = req[v],
         \A v \in Worker : Doing(v, "count", p) \/ Doing(v, "accept", p) => req'[v] = req[v]
  PROVE  InTurn(p)'
<1>1. \A v \in Worker : Handling(v, p)' => Handling(v, p)
  BY DEF Handling
<1>2. \A v \in Worker : /\ Doing(v, "count", p) => Doing(v, "count", p)'
                        /\ Doing(v, "accept", p) => Doing(v, "accept", p)'
  BY DEF Doing, Running
<1>3. \A v \in Worker : Doing(v, "sent", p)' \/ Doing(v, "match", p)' \/ Doing(v, "count", p)'
                          => req'[v] = req[v]
  BY DEF Doing, Running, Handling
<1>4. \A v, w \in Worker : Handling(v, p)' /\ Handling(w, p)' => v = w
  BY <1>1 DEF InTurn
<1>5. p \in otp' => guesses'[p] <= attempts'[p] \/ \E w \in Worker : Doing(w, "count", p)'
  BY <1>2 DEF InTurn
<1>6. p \in older' => guesses'[p] = 0 \/ \E w \in Worker : Doing(w, "count", p)'
  BY <1>2 DEF InTurn
<1>7. p \in otp' => matches'[p] = 0 \/ \E w \in Worker : Doing(w, "accept", p)'
  BY <1>2 DEF InTurn
<1>8. ASSUME NEW w \in Worker
      PROVE  /\ Doing(w, "sent", p)' => guesses'[p] = 0
             /\ Doing(w, "match", p)' /\ p \in otp' => guesses'[p] <= req'[w].n
             /\ Doing(w, "count", p)' /\ p \in otp' => guesses'[p] <= req'[w].n + 1
  BY <1>3 DEF InTurn, Doing, Running
<1> QED
  BY <1>4, <1>5, <1>6, <1>7, <1>8 DEF InTurn

\* A request that neither stores, compares nor counts.
LEMMA OtherRequest ==
  ASSUME TypeInv, OtpInv, NEW w \in Worker, \A v \in Worker \ {w} : req'[v] = req[v],
         req'[w].op \notin {"sent", "match", "count", "void", "accept"},
         ~Running(w, "count"), ~Running(w, "accept"),
         guesses' = guesses, matches' = matches, attempts' = attempts,
         otp' = otp, older' = older, loose' = loose
  PROVE  OtpInv'
<1> SUFFICES ASSUME NEW p \in Phone \ loose PROVE InTurn(p)'
  BY DEF OtpInv
<1>1. \A v \in Worker : Handling(v, p)' => req'[v] = req[v]
  BY DEF Handling
<1>2. \A v \in Worker : Doing(v, "count", p) \/ Doing(v, "accept", p) => req'[v] = req[v]
  BY DEF Doing, Running
<1> QED
  BY <1>1, <1>2, TurnUntouched DEF OtpInv

\* A request about q leaves the other phones alone.
LEMMA OtherPhone ==
  ASSUME TypeInv, NEW w \in Worker, NEW p \in Phone, NEW q \in Phone, p # q, InTurn(p),
         NEW r, req' = [req EXCEPT ![w] = r],
         Handling(w, q) \/ req[w].op \notin {"sent", "match", "count", "void", "accept"},
         r.op \in {"sent", "match", "count", "void", "accept"} => r.p = q,
         guesses'[p] = guesses[p], matches'[p] = matches[p], attempts'[p] = attempts[p],
         p \in otp' => p \in otp, p \in older' => p \in older
  PROVE  InTurn(p)'
<1>1. \A v \in Worker : req'[v] = IF v = w THEN r ELSE req[v]
  BY DEF TypeInv, TypeOK
<1>2. \A v \in Worker : Handling(v, p)' => req'[v] = req[v]
  BY <1>1 DEF Handling
<1>3. \A v \in Worker : Doing(v, "count", p) \/ Doing(v, "accept", p) => req'[v] = req[v]
  BY <1>1 DEF Doing, Running, Handling
<1> QED
  BY <1>2, <1>3, TurnUntouched

LEMMA SendOtp ==
  ASSUME TypeInv, OtpInv, NEW w \in Worker, SendStep(w)
  PROVE  OtpInv'
<1>1. ASSUME NEW p \in Phone, SendRead(w, p) PROVE OtpInv'
  <2>1. ~Running(w, "count") /\ ~Running(w, "accept")
    BY <1>1 DEF SendRead, Admitted, Running, Idle
  <2>2. \A v \in Worker : req'[v] = IF v = w THEN [op |-> "send", p |-> p] ELSE req[v]
    BY <1>1 DEF SendRead, Continue, TypeInv, TypeOK
  <2> QED
    BY <1>1, <2>1, <2>2, OtherRequest DEF SendRead, otpVars
<1>2. ASSUME SendStore(w) PROVE OtpInv'
  <2> DEFINE q == req[w].p
  <2>1. q \in Phone /\ req[w].op = "send"
    BY <1>2, RequestParts DEF SendStore, Running, TypeInv
  <2>2. req' = [req EXCEPT ![w] = [op |-> "sent", p |-> q]]
    BY <1>2 DEF SendStore, Continue
  <2>3. \A v \in Worker : req'[v] = IF v = w THEN [op |-> "sent", p |-> q] ELSE req[v]
    BY <2>2 DEF TypeInv, TypeOK
  <2> SUFFICES ASSUME NEW p \in Phone \ loose' PROVE InTurn(p)'
    BY DEF OtpInv
  <2>4. CASE p = q
    <3>1. \A v \in Worker : ~Handling(v, q)
      BY <1>2, <2>4 DEF SendStore
    <3>2. \A v \in Worker : Handling(v, p)' => v = w
      BY <2>3, <2>4, <3>1 DEF Handling
    <3>3. guesses'[p] = 0 /\ matches'[p] = 0 /\ attempts'[p] \in Nat
      BY <1>2, <2>1, <2>4 DEF SendStore, TypeInv, TypeOK
    <3>4. \A v \in Worker : ~Doing(v, "match", p)' /\ ~Doing(v, "count", p)'
      BY <2>3, <2>4, <3>1 DEF Doing, Running, Handling
    <3> QED
      BY <3>2, <3>3, <3>4 DEF InTurn
  <2>5. CASE p # q
    <3>1. p \notin loose /\ guesses'[p] = guesses[p] /\ matches'[p] = matches[p]
          /\ attempts'[p] = attempts[p] /\ (p \in otp' => p \in otp)
          /\ (p \in older' => p \in older)
      BY <1>2, <2>1, <2>5 DEF SendStore, TypeInv, TypeOK
    <3>2. InTurn(p)
      BY <3>1 DEF OtpInv
    <3> QED
      BY <2>1, <2>2, <2>5, <3>1, <3>2, OtherPhone
  <2> QED
    BY <2>4, <2>5
<1>3. ASSUME SendReset(w) PROVE OtpInv'
  <2> DEFINE q == req[w].p
  <2>1. q \in Phone /\ req[w].op = "sent" /\ Handling(w, q) /\ Doing(w, "sent", q)
    BY <1>3, RequestParts DEF SendReset, Running, TypeInv, Handling, Doing
  <2>2. req' = [req EXCEPT ![w] = [op |-> "deliver", p |-> q]]
    BY <1>3 DEF SendReset, Continue
  <2>3. \A v \in Worker : req'[v] = IF v = w THEN [op |-> "deliver", p |-> q] ELSE req[v]
    BY <2>2 DEF TypeInv, TypeOK
  <2> SUFFICES ASSUME NEW p \in Phone \ loose PROVE InTurn(p)'
    BY <1>3 DEF OtpInv, SendReset
  <2>0. InTurn(p)
    BY DEF OtpInv
  <2>4. CASE p = q
    <3>1. \A v \in Worker : Handling(v, p) => v = w
      BY <2>0, <2>1, <2>4 DEF InTurn
    <3>2. \A v \in Worker : ~Handling(v, p)'
      BY <2>3, <2>4, <3>1 DEF Handling
    <3>3. guesses[p] = 0 /\ matches[p] <= 1 /\ (p \in otp => matches[p] = 0)
      BY <2>0, <2>1, <2>4, <3>1 DEF InTurn, Doing, Running, Handling
    <3>4. /\ guesses' = guesses /\ matches' = matches /\ attempts'[p] = 0
          /\ p \notin older' /\ otp' = otp
      BY <1>3, <2>1, <2>4 DEF SendReset, TypeInv, TypeOK
    <3>5. \A v \in Worker : ~Doing(v, "sent", p)' /\ ~Doing(v, "match", p)'
                            /\ ~Doing(v, "count", p)'
      BY <3>2 DEF Doing, Running, Handling
    <3> QED
      BY <3>2, <3>3, <3>4, <3>5 DEF InTurn
  <2>5. CASE p # q
    <3>1. guesses'[p] = guesses[p] /\ matches'[p] = matches[p]
          /\ attempts'[p] = attempts[p] /\ (p \in otp' => p \in otp)
          /\ (p \in older' => p \in older)
      BY <1>3, <2>1, <2>5 DEF SendReset, TypeInv, TypeOK
    <3> QED
      BY <2>0, <2>1, <2>2, <2>5, <3>1, OtherPhone
  <2> QED
    BY <2>4, <2>5
<1>4. ASSUME NEW delivered \in BOOLEAN, SendDeliver(w, delivered) PROVE OtpInv'
  <2>1. \A v \in Worker : req'[v] = IF v = w THEN Idle ELSE req[v]
    BY <1>4 DEF SendDeliver, Finish, Continue, TypeInv, TypeOK
  <2> QED
    BY <1>4, <2>1, OtherRequest DEF SendDeliver, Running, Idle
<1> QED
  BY <1>1, <1>2, <1>3, <1>4 DEF SendStep

LEMMA CompareOtp ==
  ASSUME TypeInv, OtpInv, NEW w \in Worker, MatchRight(w) \/ MatchWrong(w)
  PROVE  OtpInv'
<1> DEFINE q == req[w].p
           n == req[w].n
<1>1. q \in Phone /\ n \in Nat /\ n < MaxAttempts /\ req[w].op = "match"
  BY RequestParts DEF MatchRight, MatchWrong, Running, TypeInv
<1>2. Handling(w, q) /\ Doing(w, "match", q)
  BY <1>1 DEF Handling, Doing, Running
<1>3. /\ otp' = otp /\ older' = older /\ attempts' = attempts /\ loose' = loose
  BY DEF MatchRight, MatchWrong
<1> SUFFICES ASSUME NEW p \in Phone \ loose PROVE InTurn(p)'
  BY <1>3 DEF OtpInv
<1>4. InTurn(p)
  BY DEF OtpInv
<1>5. ASSUME p = q
      PROVE  /\ \A v \in Worker : Handling(v, p) => v = w
             /\ \A v \in Worker : ~Doing(v, "count", p) /\ ~Doing(v, "accept", p)
  <2>1. \A v \in Worker : Handling(v, p) => v = w
    BY <1>2, <1>4, <1>5 DEF InTurn
  <2> QED
    BY <1>1, <2>1 DEF Handling, Doing, Running
<1>6. ASSUME MatchRight(w) PROVE InTurn(p)'
  <2> DEFINE r == [op |-> "accept", p |-> q]
  <2>1. req' = [req EXCEPT ![w] = r]
    BY <1>6 DEF MatchRight, Continue
  <2>2. \A v \in Worker : req'[v] = IF v = w THEN r ELSE req[v]
    BY <2>1 DEF TypeInv, TypeOK
  <2>3. CASE p = q
    <3>1. guesses' = guesses /\ matches'[p] = 1 /\ p \in otp
      BY <1>1, <1>4, <1>5, <1>6, <2>3 DEF MatchRight, Tally, InTurn, TypeInv, TypeOK
    <3>2. \A v \in Worker : Handling(v, p)' => v = w
      BY <1>5, <2>2, <2>3 DEF Handling
    <3>3. Doing(w, "accept", p)'
      BY <2>2, <2>3 DEF Doing, Running
    <3>4. \A v \in Worker : ~Doing(v, "sent", p)' /\ ~Doing(v, "match", p)'
                            /\ ~Doing(v, "count", p)'
      BY <2>2, <3>2 DEF Doing, Running, Handling
    <3> QED
      BY <1>3, <1>4, <1>5, <2>3, <3>1, <3>2, <3>3, <3>4 DEF InTurn
  <2>4. CASE p # q
    <3>1. guesses'[p] = guesses[p] /\ matches'[p] = matches[p] /\ attempts'[p] = attempts[p]
      BY <1>1, <1>3, <1>6, <2>4 DEF MatchRight, Tally, TypeInv, TypeOK
    <3> QED
      BY <1>1, <1>2, <1>3, <1>4, <2>1, <2>4, <3>1, OtherPhone
  <2> QED
    BY <2>3, <2>4
<1>7. ASSUME MatchWrong(w) PROVE InTurn(p)'
  <2> DEFINE r == [op |-> "count", p |-> q, n |-> n]
  <2>1. req' = [req EXCEPT ![w] = r]
    BY <1>7 DEF MatchWrong, Continue
  <2>2. \A v \in Worker : req'[v] = IF v = w THEN r ELSE req[v]
    BY <2>1 DEF TypeInv, TypeOK
  <2>3. CASE p = q
    <3>1. guesses[p] <= MaxAttempts /\ (p \in otp => guesses[p] <= n) /\ matches[p] <= 1
          /\ (p \in otp => matches[p] = 0)
      BY <1>2, <1>4, <1>5, <2>3 DEF InTurn
    <3>2. matches' = matches /\ guesses[p] \in Nat
          /\ guesses'[p] = IF p \in otp THEN guesses[p] + 1 ELSE guesses[p]
      BY <1>7, <2>3 DEF MatchWrong, Tally, TypeInv, TypeOK
    <3>3. guesses'[p] <= MaxAttempts /\ (p \in otp => guesses'[p] <= n + 1)
      BY <1>1, <3>1, <3>2, SMT
    <3>4. \A v \in Worker : Handling(v, p)' => v = w
      BY <1>5, <2>2, <2>3 DEF Handling
    <3>5. Doing(w, "count", p)' /\ req'[w].n = n
      BY <2>2, <2>3 DEF Doing, Running
    <3>6. \A v \in Worker : /\ ~Doing(v, "sent", p)' /\ ~Doing(v, "match", p)'
                            /\ Doing(v, "count", p)' => v = w
      BY <2>2, <3>4 DEF Doing, Running, Handling
    <3> QED
      BY <1>3, <3>1, <3>2, <3>3, <3>4, <3>5, <3>6 DEF InTurn
  <2>4. CASE p # q
    <3>1. guesses'[p] = guesses[p] /\ matches'[p] = matches[p] /\ attempts'[p] = attempts[p]
      BY <1>1, <1>3, <1>7, <2>4 DEF MatchWrong, Tally, TypeInv, TypeOK
    <3> QED
      BY <1>1, <1>2, <1>3, <1>4, <2>1, <2>4, <3>1, OtherPhone
  <2> QED
    BY <2>3, <2>4
<1> QED
  BY <1>6, <1>7

LEMMA CountGuessOtp ==
  ASSUME TypeInv, OtpInv, NEW w \in Worker, CountGuess(w)
  PROVE  OtpInv'
<1> DEFINE q == req[w].p
           n == req[w].n
           r == IF NewAttempts(n) >= MaxAttempts THEN [op |-> "void", p |-> q] ELSE Idle
<1>1. q \in Phone /\ n \in Nat /\ req[w].op = "count"
  BY RequestParts DEF CountGuess, Running, TypeInv
<1>2. Handling(w, q) /\ Doing(w, "count", q)
  BY <1>1 DEF Handling, Doing, Running
<1>3. otp' = otp /\ guesses' = guesses /\ matches' = matches /\ loose' = loose
      /\ older' = older \ {q}
  BY DEF CountGuess
<1>4. req' = [req EXCEPT ![w] = r]
  BY DEF CountGuess, Continue
<1>5. r.op \in {"void", "idle"} /\ (r.op = "void" => r.p = q)
  BY DEF Idle
<1>6. \A v \in Worker : req'[v] = IF v = w THEN r ELSE req[v]
  BY <1>4 DEF TypeInv, TypeOK
<1>7. \A p \in Phone : attempts'[p] = IF p = q THEN n + 1 ELSE attempts[p]
  BY DEF CountGuess, NewAttempts, TypeInv, TypeOK
<1> HIDE DEF r
<1> SUFFICES ASSUME NEW p \in Phone \ loose PROVE InTurn(p)'
  BY <1>3 DEF OtpInv
<1>8. InTurn(p)
  BY DEF OtpInv
<1>9. CASE p = q
  <2>1. \A v \in Worker : Handling(v, p) => v = w
    BY <1>2, <1>8, <1>9 DEF InTurn
  <2>2. /\ guesses[p] <= MaxAttempts /\ matches[p] <= 1
        /\ p \in otp => guesses[p] <= n + 1
        /\ p \in otp => matches[p] = 0
    BY <1>1, <1>2, <1>8, <1>9, <2>1 DEF InTurn, Doing, Running, Handling
  <2>3. \A v \in Worker : Handling(v, p)' => v = w
    BY <1>6, <2>1 DEF Handling
  <2>4. \A v \in Worker : ~Doing(v, "sent", p)' /\ ~Doing(v, "match", p)'
                          /\ ~Doing(v, "count", p)'
    BY <1>5, <1>6, <2>3 DEF Doing, Running, Handling
  <2>5. attempts'[p] = n + 1 /\ p \notin older'
    BY <1>3, <1>7, <1>9
  <2> QED
    BY <1>3, <2>2, <2>3, <2>4, <2>5 DEF InTurn
<1>10. CASE p # q
  BY <1>1, <1>2, <1>3, <1>4, <1>5, <1>7, <1>8, <1>10, OtherPhone
<1> QED
  BY <1>9, <1>10

LEMMA ForgetOtp ==
  ASSUME TypeInv, OtpInv, NEW w \in Worker, Invalidate(w) \/ Accept(w)
  PROVE  OtpInv'
<1> DEFINE q == req[w].p
<1>1. q \in Phone /\ Handling(w, q)
  BY RequestParts DEF Invalidate, Accept, Running, Handling, TypeInv
<1>2. /\ otp' = otp \ {q} /\ older' = older \ {q}
      /\ guesses' = guesses /\ matches' = matches /\ loose' = loose
      /\ \A p \in Phone : p # q => attempts'[p] = attempts[p]
  BY DEF Invalidate, Accept, Forget, ForgetUsed, TypeInv, TypeOK
<1>3. PICK r \in {Idle, [op |-> "enter", p |-> q]} : req' = [req EXCEPT ![w] = r]
  BY DEF Invalidate, Accept, Finish, Continue
<1>4. r.op \in {"idle", "enter"}
  BY <1>3 DEF Idle
<1>5. \A v \in Worker : req'[v] = IF v = w THEN r ELSE req[v]
  BY <1>3 DEF TypeInv, TypeOK
<1> SUFFICES ASSUME NEW p \in Phone \ loose PROVE InTurn(p)'
  BY <1>2 DEF OtpInv
<1>6. InTurn(p)
  BY DEF OtpInv
<1>7. CASE p = q
  <2>1. \A v \in Worker : Handling(v, p) => v = w
    BY <1>1, <1>6, <1>7 DEF InTurn
  <2>2. \A v \in Worker : ~Handling(v, p)'
    BY <1>4, <1>5, <2>1 DEF Handling
  <2>3. \A v \in Worker : ~Doing(v, "sent", p)' /\ ~Doing(v, "match", p)'
                          /\ ~Doing(v, "count", p)'
    BY <2>2 DEF Doing, Running, Handling
  <2>4. p \notin otp' /\ p \notin older'
    BY <1>2, <1>7
  <2> QED
    BY <1>2, <1>6, <2>2, <2>3, <2>4 DEF InTurn
<1>8. CASE p # q
  BY <1>1, <1>2, <1>3, <1>4, <1>6, <1>8, OtherPhone
<1> QED
  BY <1>7, <1>8

LEMMA VerifyReadOtp ==
  ASSUME TypeInv, OtpInv, NEW w \in Worker, NEW q \in Phone, VerifyRead(w, q)
  PROVE  OtpInv'
<1> DEFINE r == IF Exhausted(q) THEN [op |-> "void", p |-> q]
                                ELSE [op |-> "match", p |-> q, n |-> attempts[q]]
<1>1. req[w].op \in {"counted", "idle"}
  BY DEF VerifyRead, Admitted, Running, Idle
<1>2. req' = [req EXCEPT ![w] = r]
  BY DEF VerifyRead, Continue
<1>3. r.op \in {"void", "match"} /\ r.p = q /\ (r.op = "match" => r.n = attempts[q])
  OBVIOUS
<1>4. \A v \in Worker : req'[v] = IF v = w THEN r ELSE req[v]
  BY <1>2 DEF TypeInv, TypeOK
<1> HIDE DEF r
<1> DEFINE S == {u \in {q} : \E v \in Worker : Handling(v, u)}
<1>a. Loosen(S)
  BY DEF VerifyRead
<1>6. loose' = IF \E v \in Worker : Handling(v, q) THEN loose \cup {q} ELSE loose
  BY <1>a DEF Loosen
<1> SUFFICES ASSUME NEW p \in Phone \ loose' PROVE InTurn(p)'
  BY DEF OtpInv
<1>5. otp' = otp /\ older' = older /\ attempts' = attempts
      /\ guesses'[p] = guesses[p] /\ matches'[p] = matches[p]
  BY <1>a, Undisturbed DEF VerifyRead
<1>7. InTurn(p)
  BY <1>6 DEF OtpInv
<1>8. CASE p = q
  <2>1. \A v \in Worker : ~Handling(v, p)
    BY <1>6, <1>8
  <2>2. \A v \in Worker : Handling(v, p)' => v = w
    BY <1>4, <2>1 DEF Handling
  <2>3. \A v \in Worker : ~Doing(v, "count", p) /\ ~Doing(v, "accept", p)
    BY <2>1 DEF Doing, Running, Handling
  <2>4. \A v \in Worker : /\ ~Doing(v, "sent", p)' /\ ~Doing(v, "count", p)'
                          /\ Doing(v, "match", p)' => req'[v].n = attempts[p]
    BY <1>3, <1>4, <1>8, <2>2 DEF Doing, Running, Handling
  <2> QED
    BY <1>5, <1>7, <2>2, <2>3, <2>4 DEF InTurn
<1>9. CASE p # q
  BY <1>1, <1>2, <1>3, <1>5, <1>7, <1>9, OtherPhone
<1> QED
  BY <1>8, <1>9

LEMMA AbortOtp ==
  ASSUME TypeInv, OtpInv, NEW w \in Worker, Abort(w)
  PROVE  OtpInv'
<1>1. \A v \in Worker : req'[v] = IF v = w THEN Idle ELSE req[v]
  BY DEF Abort, Finish, Continue, TypeInv, TypeOK
<1> DEFINE S == IF req[w].op \in {"count", "accept"} THEN {req[w].p} ELSE {}
<1>a. Loosen(S)
  BY DEF Abort
<1>2. loose' = IF req[w].op \in {"count", "accept"} THEN loose \cup {req[w].p} ELSE loose
  BY <1>a DEF Loosen
<1> SUFFICES ASSUME NEW p \in Phone \ loose' PROVE InTurn(p)'
  BY DEF OtpInv
<1>3. otp' = otp /\ older' = older /\ attempts' = attempts
      /\ guesses'[p] = guesses[p] /\ matches'[p] = matches[p]
  BY <1>a, Undisturbed DEF Abort
<1>4. InTurn(p)
  BY <1>2 DEF OtpInv
<1>5. \A v \in Worker : Handling(v, p)' => req'[v] = req[v]
  BY <1>1 DEF Handling, Idle
<1>6. \A v \in Worker : Doing(v, "count", p) \/ Doing(v, "accept", p) => req'[v] = req[v]
  BY <1>1, <1>2 DEF Doing, Running
<1> QED
  BY <1>3, <1>4, <1>5, <1>6, TurnUntouched

LEMMA CounterExpiresOtp ==
  ASSUME TypeInv, OtpInv, NEW q \in Phone, CounterExpires(q)
  PROVE  OtpInv'
<1>1. /\ req' = req /\ otp' = otp /\ guesses' = guesses /\ matches' = matches
      /\ loose' = loose /\ older' = older \ {q}
      /\ \A p \in Phone : attempts'[p] = IF p = q THEN 0 ELSE attempts[p]
      /\ q \notin otp \/ q \in older
  BY DEF CounterExpires, TypeInv, TypeOK
<1> SUFFICES ASSUME NEW p \in Phone \ loose PROVE InTurn(p)'
  BY <1>1 DEF OtpInv
<1>2. InTurn(p)
  BY DEF OtpInv
<1>3. \A v \in Worker : \A op : Doing(v, op, p)' <=> Doing(v, op, p)
  BY <1>1 DEF Doing, Running
<1>4. \A v \in Worker : Handling(v, p)' <=> Handling(v, p)
  BY <1>1 DEF Handling
<1>5. p \in otp => guesses[p] <= attempts'[p] \/ \E v \in Worker : Doing(v, "count", p)
  BY <1>1, <1>2 DEF InTurn
<1> QED
  BY <1>1, <1>2, <1>3, <1>4, <1>5 DEF InTurn

LEMMA NextOtpInv == TypeInv /\ OtpInv /\ [Next]_vars => OtpInv'
<1> SUFFICES ASSUME TypeInv, OtpInv, [Next]_vars PROVE OtpInv'
  OBVIOUS
<1>1. ASSUME NEW w \in Worker, GuardStep(w) \/ TokenStep(w) \/ Enter(w) PROVE OtpInv'
  <2>1. guesses' = guesses /\ matches' = matches /\ attempts' = attempts
        /\ otp' = otp /\ older' = older /\ loose' = loose
    BY <1>1 DEF GuardStep, GuardCount, GuardOpen, TokenStep, StoreToken, RefreshRead,
      RefreshDelete, Enter, otpVars
  <2>2. ~Running(w, "count") /\ ~Running(w, "accept")
    <3>1. \A r : Admitted(w, r) => req[w].op \in {"counted", "idle"}
      BY DEF Admitted, Running, Idle
    <3>2. CASE GuardStep(w)
      BY <3>2 DEF GuardStep, GuardCount, GuardOpen, Begin, Running, Idle
    <3>3. CASE TokenStep(w)
      BY <3>1, <3>3 DEF TokenStep, StoreToken, RefreshRead, RefreshDelete, Running
    <3>4. CASE Enter(w)
      BY <3>4 DEF Enter, Running
    <3> QED
      BY <1>1, <3>2, <3>3, <3>4
  <2>3. /\ \A v \in Worker \ {w} : req'[v] = req[v]
        /\ req'[w].op \notin {"sent", "match", "count", "void", "accept"}
    <3>1. CASE GuardStep(w)
      BY <3>1 DEF GuardStep, GuardCount, GuardOpen, Begin, Continue, TypeInv, TypeOK
    <3>2. CASE TokenStep(w)
      BY <3>2 DEF TokenStep, StoreToken, RefreshRead, RefreshDelete, Finish, Continue, Idle,
        TypeInv, TypeOK
    <3>3. CASE Enter(w)
      BY <3>3 DEF Enter, Continue, TypeInv, TypeOK
    <3> QED
      BY <1>1, <3>1, <3>2, <3>3
  <2> QED
    BY <2>1, <2>2, <2>3, OtherRequest
<1>2. ASSUME NEW w \in Worker, VerifyStep(w) PROVE OtpInv'
  BY <1>1, <1>2, VerifyReadOtp, CompareOtp, CountGuessOtp, ForgetOtp DEF VerifyStep
<1>3. ASSUME UNCHANGED <<req, guesses, matches, attempts, loose>>,
             otp' \subseteq otp, older' \subseteq older
      PROVE  OtpInv'
  <2> SUFFICES ASSUME NEW p \in Phone \ loose PROVE InTurn(p)'
    BY <1>3 DEF OtpInv
  <2> QED
    BY <1>3, TurnUntouched DEF OtpInv
<1>4. ASSUME NEW t \in Token, Logout(t) \/ TokenExpires(t) PROVE OtpInv'
  BY <1>3, <1>4 DEF Logout, TokenExpires, otpVars
<1>5. ASSUME NEW p \in Phone, UpdateStatus(p) \/ OtpExpires(p) \/ CooldownExpires(p)
      PROVE  OtpInv'
  BY <1>3, <1>5 DEF UpdateStatus, OtpExpires, CooldownExpires, otpVars
<1>6. ASSUME NEW r \in Routes, WindowExpires(r) PROVE OtpInv'
  BY <1>3, <1>6 DEF WindowExpires, otpVars
<1>7. CASE UNCHANGED vars
  BY <1>3, <1>7 DEF vars, otpVars
<1> QED
  BY <1>1, <1>2, <1>4, <1>5, <1>6, <1>7, SendOtp, AbortOtp, CounterExpiresOtp
  DEF Next, Expiry

(* At most MAX_OTP_ATTEMPTS wrong guesses are compared with an OTP that is *)
(* handled in turn, and it signs in once, for any limit and any number of  *)
(* phones and requests (sendOtp, verifyOtp): OtpWithinLimits.              *)
THEOREM OtpLimited == Spec => []OtpWithinLimits
<1>1. OtpInv => OtpWithinLimits
  BY DEF OtpInv, InTurn, OtpWithinLimits
<1> QED
  BY <1>1, InitOtpInv, NextOtpInv, TypeInvHolds, PTL DEF Spec
=============================================================================
