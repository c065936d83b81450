------------------------------- MODULE AdminLogin -------------------------------
(***************************************************************************)
(* POST /admin/login of src/admin/index.ts: several logins under way at    *)
(* the same time, and the failed ones counted per client.  A login tests   *)
(* the count when it arrives, then awaits its body and the check of the    *)
(* password, and is counted after that.                                    *)
(*                                                                         *)
(* Times are kept as what is left until them, so that the clock, which is  *)
(* never set back here, needs no bound.                                    *)
(***************************************************************************)
EXTENDS ClientAddress, FiniteSets

CONSTANTS
  Logins,             \* the requests that may be under way at the same time
  Requests,           \* what they may be: a connection and its headers
  ProxyLists,         \* the values of trustedProxies
  Direct,             \* the key "direct"
  MaxLoginAttempts,   \* 5
  LoginWindow         \* 15 minutes, in ticks of the clock

ASSUME RequestsAssumption ==
  \A r \in Requests :
    /\ DOMAIN r = {"remote", "cfConnectingIP", "forwardedFor"}
    /\ r.remote \in PlainAddresses \cup {NoHeader} /\ r.remote # Empty
ASSUME ListsAssumption == ProxyLists \subseteq SUBSET Cidrs
ASSUME LimitsAssumption ==
  /\ MaxLoginAttempts \in Nat \ {0} /\ LoginWindow \in Nat \ {0}
  /\ IsFiniteSet(Logins)

VARIABLES
  trustedProxies,   \* of the configuration
  attempts,         \* loginAttempts: count and the time left until resetAt
  login,            \* what each login is and waits for
  failed            \* observer: how many logins of a client failed since its
                    \* last success, by their age, up to LoginWindow

vars == <<trustedProxies, attempts, login, failed>>

Ips == (UNION {{r.remote, r.cfConnectingIP, r.forwardedFor} : r \in Requests})
         \ {NoHeader, Empty}
Keys == Ips \cup {Direct}
Ages == 0 .. LoginWindow - 1
NoFailures == [age \in Ages |-> 0]
Attempt == [count : Nat, left : 0 .. LoginWindow]
Idle == [at |-> "idle"]
Login == {Idle} \cup [at : {"body", "verify"}, request : Requests]

(* loginAttemptKey: one count for everybody unless proxies are trusted,    *)
(* and for all whose address is not known.                                 *)
LoginAttemptKey(r) ==
  LET clientIp == ClientIp(r, trustedProxies)
  IN  IF trustedProxies = {} \/ clientIp = NoHeader THEN Direct ELSE clientIp

(* Who really sent a request: the trusted proxies tell, if they name one. *)
Client(r) ==
  IF trustedProxies = {} \/ r.remote = NoHeader THEN Direct
  ELSE IF (\E cidr \in trustedProxies : Belongs(r.remote, cidr)) /\ Names(r)
    THEN Named(r)
    ELSE r.remote

(* An entry whose time has come counts as none. *)
Counts(k) == k \in DOMAIN attempts /\ attempts[k].left > 0

Limited(k) == Counts(k) /\ attempts[k].count >= MaxLoginAttempts

Init ==
  /\ trustedProxies \in ProxyLists
  /\ attempts = [k \in {} |-> 0]
  /\ login = [l \in Logins |-> Idle]
  /\ failed = [client \in Keys |-> NoFailures]

At(l, here) == login[l].at = here
Goto(l, there) == login' = [login EXCEPT ![l].at = there]
Starts(l, r) == login' = [login EXCEPT ![l] = [at |-> "body", request |-> r]]
Ends(l) == login' = [login EXCEPT ![l] = Idle]
Key(l) == LoginAttemptKey(login[l].request)
SetAttempt(k, count, left) ==
  attempts' = [x \in DOMAIN attempts \cup {k} |->
                 IF x = k THEN [count |-> count, left |-> left] ELSE attempts[x]]

--------------------------------------------------------------------------------
(* isLoginRateLimited: the first login of a window opens it; one that is   *)
(* refused is answered 429 at once.                                        *)
Arrive(l, r) ==
  LET k == LoginAttemptKey(r)
  IN  /\ At(l, "idle") /\ ~Limited(k)
      /\ IF Counts(k) THEN UNCHANGED attempts ELSE SetAttempt(k, 0, LoginWindow)
      /\ Starts(l, r)
      /\ UNCHANGED <<trustedProxies, failed>>

(* A mistake: every failure starts a window of its own. *)
RecordFailedLoginAnew(k) == SetAttempt(k, 1, LoginWindow)

RecordFailedLogin(k) ==
  IF Counts(k) THEN SetAttempt(k, attempts[k].count + 1, attempts[k].left)
               ELSE SetAttempt(k, 1, LoginWindow)

ClearFailedLogins(k) == attempts' = [x \in DOMAIN attempts \ {k} |-> attempts[x]]

Fail(l) ==
  /\ RecordFailedLogin(Key(l))
  /\ failed' = [failed EXCEPT ![Client(login[l].request)][0] = @ + 1]
  /\ Ends(l)

(* The body: not JSON is answered 500 and not counted; without a name or a *)
(* password it is a failed login; the check of the password comes last.    *)
BodyArrives(l) ==
  /\ At(l, "body")
  /\ \/ Ends(l) /\ UNCHANGED <<attempts, failed>>
     \/ Fail(l)
     \/ Goto(l, "verify") /\ UNCHANGED <<attempts, failed>>
  /\ UNCHANGED trustedProxies

(* A mistake: the successful login does not clear the count. *)
PasswordVerifiedOnly(l) ==
  /\ At(l, "verify")
  /\ \/ Fail(l)
     \/ /\ UNCHANGED attempts
        /\ failed' = [failed EXCEPT ![Client(login[l].request)] = NoFailures]
        /\ Ends(l)
  /\ UNCHANGED trustedProxies

(* verifyPassword: an unknown name and a comparison that throws are wrong  *)
(* passwords; a right one clears the count and is answered with a token.   *)
PasswordVerified(l) ==
  /\ At(l, "verify")
  /\ \/ Fail(l)
     \/ /\ ClearFailedLogins(Key(l))
        /\ failed' = [failed EXCEPT ![Client(login[l].request)] = NoFailures]
        /\ Ends(l)
  /\ UNCHANGED trustedProxies

Tick ==
  /\ attempts' = [k \in DOMAIN attempts |->
                    [attempts[k] EXCEPT !.left = IF @ = 0 THEN 0 ELSE @ - 1]]
  /\ failed' = [client \in Keys |->
                  [age \in Ages |-> IF age = 0 THEN 0 ELSE failed[client][age - 1]]]
  /\ UNCHANGED <<trustedProxies, login>>

Next ==
  \/ \E l \in Logins, r \in Requests : Arrive(l, r)
  \/ \E l \in Logins : BodyArrives(l) \/ PasswordVerified(l)
  \/ Tick

Spec == Init /\ [][Next]_vars

--------------------------------------------------------------------------------
(* The types; in particular every entry is of somebody who tried. *)
TypeOK ==
  /\ trustedProxies \in ProxyLists
  /\ DOMAIN attempts \subseteq Keys
  /\ \A k \in DOMAIN attempts : attempts[k] \in Attempt
  /\ login \in [Logins -> Login]
  /\ failed \in [Keys -> [Ages -> Nat]]

(* How many of the failures "f" are younger than each age; all of them.    *)
Younger(f) ==
  LET sum[age \in 0 .. LoginWindow] ==
        IF age = 0 THEN 0 ELSE sum[age - 1] + f[age - 1]
  IN  sum
Sum(f) == Younger(f)[LoginWindow]

(* A window starts when it is opened, whenever that is: between two        *)
(* successful logins a client never fails more often, in any stretch of    *)
(* the length of a window, than two windows allow.                         *)
AttemptBound ==
  \A client \in Keys :
    Sum(failed[client]) <= 2 * (MaxLoginAttempts - 1 + Cardinality(Logins))

(* A client is refused only for what it did itself, and lately: with       *)
(* trusted proxies the failures of another client never lock it out.       *)
LockedOutForCause ==
  \A r \in Requests :
    Limited(LoginAttemptKey(r)) => Sum(failed[Client(r)]) >= MaxLoginAttempts

(* Whether a connection is from a trusted proxy is whether its address     *)
(* lies in one of the networks: for every address in every spelling but    *)
(* those that are taken for mapped ones, and for the configured networks   *)
(* with any one added, of prefix 0 to the whole address.  Logins do not    *)
(* matter; it is evaluated where none is.                                  *)
MatchIsMembership ==
  DOMAIN attempts = {} =>
    \A ip \in PlainAddresses, cidr \in Cidrs :
      LET cidrs == trustedProxies \cup {cidr}
      IN  IsIPInCIDRList(ip, cidrs) <=> \E c \in cidrs : Belongs(ip, c)

================================================================================
