-------------------------------- MODULE Sessions --------------------------------
(***************************************************************************)
(* Signing in to one account on several servers that share a Redis: the    *)
(* counter of failed attempts and the lock, two keys that expire.  Every   *)
(* call of Redis is a step of its own, and the account is read from the    *)
(* database between the look at the lock and the check of the password.    *)
(***************************************************************************)
EXTENDS Integers, FiniteSets

CONSTANTS
    Logins,           \* concurrent login requests, over all servers
    Threshold,        \* LOCKOUT_THRESHOLD
    MaxGuesses, MaxDeaths   \* bounds of the model

VARIABLES
    counter,     \* key valence:rl:fail: of the account, 0 when absent
    expires,     \* the counter has a time to live
    locked,      \* key valence:rl:lock: of the account
    login,       \* local state of each request
    guesses,     \* history: failures counted since the last fresh start
    total, deaths   \* counters of the bounds

sessionVars == <<counter, expires, locked, login, guesses, total, deaths>>

NoLogin == [at |-> "idle", count |-> 0]

SessionsInit ==
    /\ counter = 0 /\ expires = FALSE /\ locked = FALSE
    /\ login = [h \in Logins |-> NoLogin]
    /\ guesses = 0 /\ total = 0 /\ deaths = 0

To(h, phase) == login' = [login EXCEPT ![h].at = phase]

(* is_account_locked: a locked account is refused before its password is   *)
(* looked at.                                                              *)
CheckLock(h) ==
    /\ login[h].at = "idle" /\ ~ locked
    /\ To(h, "select")
    /\ UNCHANGED <<counter, expires, locked, guesses, total, deaths>>

(* The user has been read; verify_password.                                *)
WrongPassword(h) ==
    /\ login[h].at = "select" /\ To(h, "incr")
    /\ UNCHANGED <<counter, expires, locked, guesses, total, deaths>>

RightPassword(h) ==
    /\ login[h].at = "select" /\ To(h, "clear")
    /\ UNCHANGED <<counter, expires, locked, guesses, total, deaths>>

(* incr_counter: INCR keeps the time to live, and returns the new count.   *)
Increment(h) ==
    /\ login[h].at = "incr" /\ total < MaxGuesses
    /\ counter' = counter + 1
    /\ guesses' = guesses + 1 /\ total' = total + 1
    /\ login' = [login EXCEPT ![h] = [at |-> "expire", count |-> counter + 1]]
    /\ UNCHANGED <<expires, locked, deaths>>

(* record_failed_login                                                     *)
MustLock(count) == count >= Threshold

(* The first failure starts the period of the counter; EXPIRE of a key     *)
(* that has gone does nothing.                                             *)
Expire(h) ==
    /\ login[h].at = "expire"
    /\ expires' = IF login[h].count = 1 /\ counter > 0 THEN TRUE ELSE expires
    /\ login' = [login EXCEPT ![h] = IF MustLock(@.count)
                                       THEN [@ EXCEPT !.at = "lock"] ELSE NoLogin]
    /\ UNCHANGED <<counter, locked, guesses, total, deaths>>

(* SETEX of the lock                                                       *)
Lock(h) ==
    /\ login[h].at = "lock"
    /\ locked' = TRUE
    /\ login' = [login EXCEPT ![h] = NoLogin]
    /\ UNCHANGED <<counter, expires, guesses, total, deaths>>

(* clear_failed_logins deletes both keys.                                  *)
Clear(h) ==
    /\ login[h].at = "clear"
    /\ counter' = 0 /\ expires' = FALSE /\ locked' = FALSE
    /\ guesses' = 0
    /\ login' = [login EXCEPT ![h] = NoLogin]
    /\ UNCHANGED <<total, deaths>>

(* Redis removes a key whose time is over.                                 *)
CounterExpires ==
    /\ counter > 0 /\ expires
    /\ counter' = 0 /\ expires' = FALSE /\ guesses' = 0
    /\ UNCHANGED <<locked, login, total, deaths>>

LockExpires ==
    /\ locked /\ locked' = FALSE /\ guesses' = 0
    /\ UNCHANGED <<counter, expires, login, total, deaths>>

(* A server dies between two calls.                                        *)
Die(h) ==
    /\ login[h].at # "idle" /\ deaths < MaxDeaths
    /\ deaths' = deaths + 1
    /\ login' = [login EXCEPT ![h] = NoLogin]
    /\ UNCHANGED <<counter, expires, locked, guesses, total>>

SessionsNext ==
    \/ CounterExpires \/ LockExpires
    \/ \E h \in Logins :
          \/ CheckLock(h) \/ WrongPassword(h) \/ RightPassword(h)
          \/ Increment(h) \/ Expire(h) \/ Lock(h) \/ Clear(h) \/ Die(h)

-----------------------------------------------------------------------------
(* Properties                                                              *)

(* The types of the keys and of the requests; a key that is absent has no  *)
(* time to live.                                                           *)
SessionsTypeOK ==
    /\ counter \in 0..MaxGuesses /\ expires \in BOOLEAN /\ locked \in BOOLEAN
    /\ (expires => counter > 0)
    /\ login \in [Logins -> [at: {"idle", "select", "incr", "expire", "lock", "clear"},
                             count: 0..MaxGuesses]]
    /\ guesses \in 0..MaxGuesses /\ total \in 0..MaxGuesses /\ deaths \in 0..MaxDeaths

(* The lock is looked at before the failure is counted, and set after it,  *)
(* so concurrent attempts get past the threshold; but by no more than one  *)
(* for each concurrent login and for each server that died.                *)
GuessesBounded == guesses <= Threshold - 1 + Cardinality(Logins) + deaths
=============================================================================
