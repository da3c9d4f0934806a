------------------------------- MODULE SignIn -------------------------------
(***************************************************************************)
(* The AuthService: one-time passwords, the account behind a phone number  *)
(* and the refresh tokens, with the rate limit guard in front of it.       *)
(*                                                                         *)
(* OTPs, counters, tokens and rate limit windows are keys of Redis.  A     *)
(* handler awaits every command; consecutive commands that no other        *)
(* request can tell apart are one step.  A key with a time to live may     *)
(* expire at any time that its age allows.                                 *)
(***************************************************************************)
EXTENDS Naturals, FiniteSets

CONSTANTS
  Phone,        \* phone numbers, one account each
  Token,        \* refresh tokens, fresh until issued
  Worker,       \* requests in flight
  Routes,       \* the guarded routes whose windows are modelled
  Points,       \* requests a window of a route admits
  Statuses,     \* the statuses administrators give to accounts
  MaxAttempts   \* MAX_OTP_ATTEMPTS

ASSUME SignInAssumption ==
  /\ Routes \subseteq {"send", "verify", "refresh"}
  /\ Points \in [Routes -> Nat \ {0}]
  /\ MaxAttempts \in Nat \ {0}
  /\ "signIn" \notin Token
  /\ Statuses \subseteq {"ACTIVE", "INACTIVE", "SUSPENDED"}

VARIABLES
  otp,        \* phones with an OTP stored
  cooling,    \* phones with a cooldown key
  attempts,   \* the attempt counter of each phone, 0 without one
  older,      \* phones whose counter was written before their OTP
  account,    \* UserStatus of the account of each phone, "NONE" without one
  live,       \* refresh tokens in Redis
  origin,     \* the token a session began with, per issued token
  holder,     \* the phone a token was issued to
  used,       \* tokens ever generated
  window,     \* requests counted in the window of each route, 0 without one
  closing,    \* routes whose window has an expiry
  req,        \* what each worker is doing
  guesses,    \* history: wrong guesses made at the stored OTP
  matches,    \* history: times the stored OTP was accepted
  loose,      \* history: phones whose OTP was not handled by one request
              \*   after the other, each to its end
  exchanged,  \* history: tokens a request exchanged for another
  ended,      \* history: sessions logged out with a token not exchanged yet
  shared,     \* history: sessions two requests renewed or ended at once
  orphaned    \* history: routes whose window lost the request that opened it

otpVars == <<otp, cooling, attempts, older, guesses, matches, loose>>
tokenVars == <<live, origin, holder, used, exchanged, ended, shared>>
windowVars == <<window, closing, orphaned>>
vars == <<otpVars, account, tokenVars, windowVars, req>>

UserStatus == {"ACTIVE", "INACTIVE", "SUSPENDED"}

Idle == [op |-> "idle"]
Request ==
  {Idle}
    \cup [op : {"opening", "counted"}, r : Routes, n : Nat \ {0}]
    \cup [op : {"send", "sent", "deliver", "void", "accept", "enter"}, p : Phone]
    \cup [op : {"match", "count"}, p : Phone, n : Nat]
    \cup [op : {"rotate"}, t : Token]
    \cup [op : {"issue"}, p : Phone, from : Token \cup {"signIn"}]

TypeOK ==
  /\ otp \subseteq Phone /\ cooling \subseteq Phone
  /\ older \subseteq Phone /\ loose \subseteq Phone
  /\ attempts \in [Phone -> 0 .. MaxAttempts]
  /\ guesses \in [Phone -> Nat] /\ matches \in [Phone -> Nat]
  /\ account \in [Phone -> UserStatus \cup {"NONE"}]
  /\ live \subseteq used /\ used \subseteq Token
  /\ exchanged \subseteq Token /\ ended \subseteq Token /\ shared \subseteq Token
  /\ origin \in [Token -> Token] /\ holder \in [Token -> Phone]
  /\ window \in [Routes -> Nat]
  /\ closing \subseteq Routes /\ orphaned \subseteq Routes
  /\ req \in [Worker -> Request]

Init ==
  /\ otp = {} /\ cooling = {} /\ older = {} /\ loose = {}
  /\ attempts = [p \in Phone |-> 0]
  /\ guesses = attempts /\ matches = attempts
  /\ account \in [Phone -> {"NONE", "ACTIVE"}]
  /\ live = {} /\ used = {} /\ exchanged = {} /\ ended = {} /\ shared = {}
  /\ origin = [t \in Token |-> t] /\ holder \in [Token -> Phone]
  /\ window = [r \in Routes |-> 0]
  /\ closing = {} /\ orphaned = {}
  /\ req = [w \in Worker |-> Idle]

Begin(w, q) == req[w] = Idle /\ req' = [req EXCEPT ![w] = q]
Continue(w, q) == req' = [req EXCEPT ![w] = q]
Finish(w) == Continue(w, Idle)
Running(w, op) == req[w].op = op

----------------------------------------------------------------------------
(* RateLimitGuard                                                          *)

\* Mutant: the request that is turned away first sets the expiry.
OpensWindowLate(r, n) == n = Points[r] + 1

OpensWindow(r, n) == n = 1

\* The counter of a route, which matters up to one more than its points.
Incremented(r) == IF window[r] > Points[r] THEN window[r] ELSE window[r] + 1

GuardCount(w, r) ==
  /\ window' = [window EXCEPT ![r] = Incremented(r)]
  /\ Begin(w, [op |-> IF OpensWindow(r, Incremented(r)) THEN "opening" ELSE "counted",
               r |-> r, n |-> Incremented(r)])
  /\ UNCHANGED <<otpVars, account, tokenVars, closing, orphaned>>

GuardOpen(w) ==
  /\ Running(w, "opening")
  /\ closing' = closing \cup {req[w].r}
  /\ Continue(w, [op |-> "counted", r |-> req[w].r, n |-> req[w].n])
  /\ UNCHANGED <<otpVars, account, tokenVars, window, orphaned>>

WindowExpires(r) ==
  /\ r \in closing
  /\ window' = [window EXCEPT ![r] = 0]
  /\ closing' = closing \ {r}
  /\ orphaned' = orphaned \ {r}
  /\ UNCHANGED <<otpVars, account, tokenVars, req>>

\* The guard lets the request pass to the handler.
Admitted(w, r) ==
  IF r \in Routes THEN Running(w, "counted") /\ req[w].r = r /\ req[w].n <= Points[r]
                  ELSE req[w] = Idle

----------------------------------------------------------------------------
(* sendOtp                                                                 *)

\* The histories of an OTP count as long as it is handled in turn.
Tally(count, p) == [count EXCEPT ![p] = IF p \in loose THEN 0 ELSE @ + 1]

\* Phones become loose, or none does.
Loosen(S) ==
  /\ loose' = loose \cup S
  /\ guesses' = [p \in Phone |-> IF p \in S THEN 0 ELSE guesses[p]]
  /\ matches' = [p \in Phone |-> IF p \in S THEN 0 ELSE matches[p]]

\* A request of p between its first write or read of the OTP and its last.
Handling(w, p) ==
  req[w].op \in {"sent", "match", "count", "void", "accept"} /\ req[w].p = p

SendRead(w, p) ==
  /\ Admitted(w, "send")
  /\ p \notin cooling /\ account[p] # "SUSPENDED"
  /\ Continue(w, [op |-> "send", p |-> p])
  /\ UNCHANGED <<otpVars, account, tokenVars, windowVars>>

SendStore(w) ==
  /\ Running(w, "send")
  /\ LET p == req[w].p IN
       /\ otp' = otp \cup {p}
       /\ older' = IF attempts[p] > 0 THEN older \cup {p} ELSE older
       /\ loose' = IF \E v \in Worker : Handling(v, p) THEN loose \cup {p} ELSE loose \ {p}
       /\ guesses' = [guesses EXCEPT ![p] = 0]
       /\ matches' = [matches EXCEPT ![p] = 0]
       /\ Continue(w, [op |-> "sent", p |-> p])
  /\ UNCHANGED <<cooling, attempts, account, tokenVars, windowVars>>

SendReset(w) ==
  /\ Running(w, "sent")
  /\ cooling' = cooling \cup {req[w].p}
  /\ attempts' = [attempts EXCEPT ![req[w].p] = 0]
  /\ older' = older \ {req[w].p}
  /\ Continue(w, [op |-> "deliver", p |-> req[w].p])
  /\ UNCHANGED <<otp, guesses, matches, loose, account, tokenVars, windowVars>>

\* A message that is not sent takes the cooldown back.
SendDeliver(w, delivered) ==
  /\ Running(w, "deliver")
  /\ cooling' = IF delivered THEN cooling ELSE cooling \ {req[w].p}
  /\ Finish(w)
  /\ UNCHANGED <<otp, attempts, older, guesses, matches, loose, account, tokenVars, windowVars>>

----------------------------------------------------------------------------
(* verifyOtp                                                               *)

\* Mutant: one attempt more than there may be.
ExhaustedAbove(p) == attempts[p] > MaxAttempts

Exhausted(p) == attempts[p] >= MaxAttempts

VerifyRead(w, p) ==
  /\ Admitted(w, "verify")
  /\ Continue(w, IF Exhausted(p)
                 THEN [op |-> "void", p |-> p]
                 ELSE [op |-> "match", p |-> p, n |-> attempts[p]])
  /\ Loosen({q \in {p} : \E v \in Worker : Handling(v, q)})
  /\ UNCHANGED <<otp, cooling, attempts, older, account, tokenVars, windowVars>>

MatchRight(w) ==
  /\ Running(w, "match") /\ req[w].p \in otp
  /\ matches' = Tally(matches, req[w].p)
  /\ Continue(w, [op |-> "accept", p |-> req[w].p])
  /\ UNCHANGED <<otp, cooling, attempts, older, guesses, loose, account, tokenVars, windowVars>>

MatchWrong(w) ==
  /\ Running(w, "match")
  /\ guesses' = IF req[w].p \in otp THEN Tally(guesses, req[w].p) ELSE guesses
  /\ Continue(w, [op |-> "count", p |-> req[w].p, n |-> req[w].n])
  /\ UNCHANGED <<otp, cooling, attempts, older, matches, loose, account, tokenVars, windowVars>>

\* Mutant: the counter is written back as it was read.
CountKept(n) == n

NewAttempts(n) == n + 1

CountGuess(w) ==
  /\ Running(w, "count")
  /\ attempts' = [attempts EXCEPT ![req[w].p] = NewAttempts(req[w].n)]
  /\ older' = older \ {req[w].p}
  /\ Continue(w, IF NewAttempts(req[w].n) >= MaxAttempts
                 THEN [op |-> "void", p |-> req[w].p] ELSE Idle)
  /\ UNCHANGED <<otp, cooling, guesses, matches, loose, account, tokenVars, windowVars>>

\* The OTP and its counter are deleted.
Forget(p) ==
  /\ otp' = otp \ {p}
  /\ attempts' = [attempts EXCEPT ![p] = 0]
  /\ older' = older \ {p}

Invalidate(w) ==
  /\ Running(w, "void")
  /\ Forget(req[w].p)
  /\ Finish(w)
  /\ UNCHANGED <<cooling, guesses, matches, loose, account, tokenVars, windowVars>>

\* Mutant: only the counter is cleared on success.
ForgetCounter(p) ==
  /\ attempts' = [attempts EXCEPT ![p] = 0]
  /\ older' = older \ {p}
  /\ UNCHANGED otp

ForgetUsed(p) == Forget(p)

Accept(w) ==
  /\ Running(w, "accept")
  /\ ForgetUsed(req[w].p)
  /\ cooling' = cooling \ {req[w].p}
  /\ Continue(w, [op |-> "enter", p |-> req[w].p])
  /\ UNCHANGED <<guesses, matches, loose, account, tokenVars, windowVars>>

\* The account is found or created; a suspended one is refused here.
Enter(w) ==
  /\ Running(w, "enter")
  /\ account[req[w].p] # "SUSPENDED"
  /\ account' = [account EXCEPT ![req[w].p] = IF @ = "NONE" THEN "ACTIVE" ELSE @]
  /\ Continue(w, [op |-> "issue", p |-> req[w].p, from |-> "signIn"])
  /\ UNCHANGED <<otpVars, tokenVars, windowVars>>

----------------------------------------------------------------------------
(* Refresh tokens: storeRefreshToken, refreshTokens and logout             *)

\* A request is renewing the session.
Renewing(w, s) ==
  \/ Running(w, "rotate") /\ origin[req[w].t] = s
  \/ Running(w, "issue") /\ req[w].from = s

Share(s) == shared' = IF \E v \in Worker : Renewing(v, s) THEN shared \cup {s} ELSE shared

StoreToken(w, t) ==
  /\ Running(w, "issue") /\ t \notin used
  /\ used' = used \cup {t} /\ live' = live \cup {t}
  /\ holder' = [holder EXCEPT ![t] = req[w].p]
  /\ origin' = [origin EXCEPT ![t] = IF req[w].from = "signIn" THEN t ELSE req[w].from]
  /\ Finish(w)
  /\ UNCHANGED <<otpVars, account, exchanged, ended, shared, windowVars>>

RefreshRead(w, t) ==
  /\ Admitted(w, "refresh")
  /\ t \in live /\ account[holder[t]] = "ACTIVE"
  /\ Continue(w, [op |-> "rotate", t |-> t])
  /\ Share(origin[t])
  /\ UNCHANGED <<otpVars, account, live, origin, holder, used, exchanged, ended, windowVars>>

\* Mutant: the token that is exchanged stays valid.
NothingRevoked(t) == {}

Revoked(t) == {t}

RefreshDelete(w) ==
  /\ Running(w, "rotate")
  /\ LET t == req[w].t IN
       /\ live' = live \ Revoked(t)
       /\ exchanged' = exchanged \cup {t}
       /\ Continue(w, [op |-> "issue", p |-> holder[t], from |-> origin[t]])
  /\ UNCHANGED <<otpVars, account, origin, holder, used, ended, shared, windowVars>>

\* JwtStrategy lets the caller pass as long as the account is ACTIVE.  The
\* token need not be valid: the key is deleted whether it is there or not,
\* and a token that was exchanged before leaves the session as it is.
Logout(t) ==
  /\ t \in used /\ account[holder[t]] = "ACTIVE"
  /\ live' = live \ {t}
  /\ IF t \in exchanged THEN UNCHANGED <<ended, shared>>
                        ELSE ended' = ended \cup {origin[t]} /\ Share(origin[t])
  /\ UNCHANGED <<otpVars, account, origin, holder, used, exchanged, windowVars, req>>

----------------------------------------------------------------------------
(* Time, administrators and failures                                       *)

OtpExpires(p) ==
  /\ p \in otp
  /\ otp' = otp \ {p} /\ older' = older \ {p}
  /\ UNCHANGED <<cooling, attempts, guesses, matches, loose, account, tokenVars, windowVars, req>>

CooldownExpires(p) ==
  /\ p \in cooling
  /\ cooling' = cooling \ {p}
  /\ UNCHANGED <<otp, attempts, older, guesses, matches, loose, account, tokenVars, windowVars, req>>

\* Each wrong guess gives the counter the time to live of an OTP again, so
\* only a counter from before the OTP ends before it.
CounterExpires(p) ==
  /\ attempts[p] > 0 /\ (p \notin otp \/ p \in older)
  /\ attempts' = [attempts EXCEPT ![p] = 0]
  /\ older' = older \ {p}
  /\ UNCHANGED <<otp, cooling, guesses, matches, loose, account, tokenVars, windowVars, req>>

TokenExpires(t) ==
  /\ t \in live
  /\ live' = live \ {t}
  /\ UNCHANGED <<otpVars, account, origin, holder, used, exchanged, ended, shared, windowVars, req>>

\* updateStatus of the users and of the admin service.
UpdateStatus(p) ==
  /\ account[p] # "NONE"
  /\ \E s \in Statuses : account' = [account EXCEPT ![p] = s]
  /\ UNCHANGED <<otpVars, tokenVars, windowVars, req>>

\* A request is refused, Redis or the database fails it, or its process dies.
Abort(w) ==
  /\ req[w] # Idle
  /\ Loosen(IF req[w].op \in {"count", "accept"} THEN {req[w].p} ELSE {})
  /\ orphaned' = IF Running(w, "opening") THEN orphaned \cup {req[w].r} ELSE orphaned
  /\ Finish(w)
  /\ UNCHANGED <<otp, cooling, attempts, older, account, tokenVars, window, closing>>

----------------------------------------------------------------------------

GuardStep(w) == (\E r \in Routes : GuardCount(w, r)) \/ GuardOpen(w)

SendStep(w) ==
  \/ \E p \in Phone : SendRead(w, p)
  \/ SendStore(w) \/ SendReset(w)
  \/ \E delivered \in BOOLEAN : SendDeliver(w, delivered)

VerifyStep(w) ==
  \/ \E p \in Phone : VerifyRead(w, p)
  \/ MatchRight(w) \/ MatchWrong(w) \/ CountGuess(w) \/ Invalidate(w)
  \/ Accept(w) \/ Enter(w)

TokenStep(w) ==
  \/ \E t \in Token : StoreToken(w, t) \/ RefreshRead(w, t)
  \/ RefreshDelete(w)

Expiry ==
  \/ \E p \in Phone : OtpExpires(p) \/ CooldownExpires(p) \/ CounterExpires(p)
  \/ \E t \in Token : TokenExpires(t)
  \/ \E r \in Routes : WindowExpires(r)

Next ==
  \/ \E w \in Worker : GuardStep(w) \/ SendStep(w) \/ VerifyStep(w) \/ TokenStep(w) \/ Abort(w)
  \/ \E t \in Token : Logout(t)
  \/ \E p \in Phone : UpdateStatus(p)
  \/ Expiry

Spec == Init /\ [][Next]_vars

----------------------------------------------------------------------------
(* Properties                                                              *)

(* At most MAX_OTP_ATTEMPTS wrong guesses are compared with one OTP, and   *)
(* it signs in once, if its requests follow one another and none dies      *)
(* before it wrote what it found, however OTPs are sent again and keys     *)
(* expire (sendOtp, verifyOtp).                                            *)
OtpWithinLimits ==
  \A p \in Phone : p \notin loose => guesses[p] <= MaxAttempts /\ matches[p] <= 1

(* A session logged out with its current token, valid or run out, has no   *)
(* valid refresh token left, unless a renewal of it was under way: however *)
(* often it was renewed, no earlier token is left valid (refreshTokens,    *)
(* logout).  A logout with a token that was exchanged before ends nothing, *)
(* although the code reports success; it is no part of this property.      *)
LogoutIsFinal == \A t \in live : origin[t] \in ended => origin[t] \in shared

(* A window that counts requests will end: its expiry is set, or about to  *)
(* be, unless the request that opened it died between INCR and EXPIRE      *)
(* (RateLimitGuard.canActivate).                                           *)
WindowsEnd ==
  \A r \in Routes :
    window[r] = 0 \/ r \in closing \/ r \in orphaned
      \/ \E w \in Worker : Running(w, "opening") /\ req[w].r = r
=============================================================================
