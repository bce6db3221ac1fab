---------------------------------- MODULE Tokens ----------------------------------
(***************************************************************************)
(* One account's tokens: single sign-on by way of a state and an exchange  *)
(* code, the refresh token, the list of revoked tokens, the live feed, and *)
(* an auditor link.  State, code, link and revocations are keys of the     *)
(* session store, which is Redis, or the memory of the one server, which a *)
(* restart empties and which drops what is beyond its limits.  A request   *)
(* reads the account from the database after it has decoded the token; the *)
(* live feed does not read it.                                             *)
(***************************************************************************)
EXTENDS Integers, FiniteSets

CONSTANTS
    Requests,         \* concurrent requests, over all servers
    MaxTokens         \* bound of the model: access tokens issued

VARIABLES
    redis,       \* the session store is Redis
    store,       \* its keys: state and code of the sign-in, auditor link
    grant,       \* the provider's authorization code: unborn, fresh, used
    active,      \* users.is_active
    live,        \* tokens that have not expired
    revoked,     \* the denylist
    request,     \* local state of each request
    issued,      \* number of access tokens issued
    forgotten,   \* history: the memory has lost the refresh token's revocation
    ended,       \* history: what has been ended, and the request answered
    late,        \* history: granted by a request begun after that
    exchanged, overlapped   \* history of the exchange code

Refresh == 0
Access == 1..MaxTokens
Doors == {"session", "account", "link", "socket"}

Resting == [op |-> "idle", at |-> "", after |-> {}]

TokensInit ==
    /\ redis \in BOOLEAN
    /\ store = {} /\ grant = "unborn"
    /\ active = TRUE
    /\ live \in {{}, {Refresh, 1}} /\ revoked = {}
    /\ request = [h \in Requests |-> Resting]
    /\ issued = Cardinality(live \ {Refresh})
    /\ forgotten = FALSE /\ ended = {} /\ late = {}
    /\ exchanged = 0 /\ overlapped = FALSE

storeVars == <<redis, store, grant>>
tokenVars == <<live, revoked, issued, forgotten>>
historyVars == <<ended, late, exchanged, overlapped>>
tokensVars == <<storeVars, active, tokenVars, request, historyVars>>

Set(h, r) == request' = [request EXCEPT ![h] = r]
At(h, op, at) == request[h].op = op /\ request[h].at = at
Next1(h, at) == Set(h, [request[h] EXCEPT !.at = at])
Rest(h) == Set(h, Resting)
Enter(h, op, at) ==
    /\ request[h].op = "idle"
    /\ Set(h, [op |-> op, at |-> at, after |-> ended])

(* The doors let the request pass.                                         *)
Pass(h, doors) == late' = late \cup (doors \cap request[h].after)

(* create_access_token for the account                                     *)
Issue ==
    /\ issued < MaxTokens
    /\ issued' = issued + 1 /\ live' = live \cup {issued + 1}

-----------------------------------------------------------------------------
(* Single sign-on                                                          *)

(* sso_login stores the state; the browser goes to the provider and comes  *)
(* back with a code that the provider takes once.  One session for each    *)
(* behaviour: this one, or one that has begun with a password.             *)
SsoLogin ==
    /\ grant = "unborn" /\ issued = 0 /\ grant' = "fresh"
    /\ store' = store \cup {"state"}
    /\ UNCHANGED <<redis, active, tokenVars, request, historyVars>>

Key(op) == IF op = "callback" THEN "state" ELSE "code"

(* get_json: GET and DELETE are two calls of Redis; the memory is popped.  *)
Take(h, op) ==
    /\ Key(op) \in store
    /\ Enter(h, op, IF redis THEN "delete" ELSE "taken")
    /\ store' = IF redis THEN store ELSE store \ {Key(op)}
    /\ overlapped' = \/ overlapped
                      \/ (op = "exchange" /\ \E g \in Requests : At(g, op, "delete"))
    /\ UNCHANGED <<redis, grant, active, tokenVars, ended, late, exchanged>>

(* sso_callback and sso_exchange begin by taking their key.                *)
Callback(h) == Take(h, "callback")
Exchange(h) == Take(h, "exchange")

Delete(h) ==
    /\ request[h].at = "delete"
    /\ store' = store \ {Key(request[h].op)}
    /\ Next1(h, "taken")
    /\ UNCHANGED <<redis, grant, active, tokenVars, historyVars>>

(* exchange_code_for_userinfo: the second use of the provider's code fails.*)
AskProvider(h) ==
    /\ At(h, "callback", "taken")
    /\ \/ grant = "fresh" /\ grant' = "used" /\ Next1(h, "account")
       \/ UNCHANGED grant /\ Rest(h)
    /\ UNCHANGED <<redis, store, active, tokenVars, historyVars>>

(* The rest of sso_callback: a disabled account is refused, otherwise the  *)
(* tokens go to the store under the exchange code.                         *)
StoreTokens(h) ==
    /\ At(h, "callback", "account")
    /\ store' = IF active THEN store \cup {"code"} ELSE store
    /\ Rest(h)
    /\ UNCHANGED <<redis, grant, active, tokenVars, historyVars>>

(* sso_exchange hands out what it found, the same tokens each time.        *)
HandOut(h) ==
    /\ At(h, "exchange", "taken")
    /\ exchanged' = exchanged + 1
    /\ IF exchanged = 0
         THEN /\ issued < MaxTokens /\ issued' = issued + 1
              /\ live' = live \cup {Refresh, issued + 1}
         ELSE UNCHANGED <<issued, live>>
    /\ Rest(h)
    /\ UNCHANGED <<storeVars, active, revoked, forgotten, ended, late, overlapped>>

-----------------------------------------------------------------------------
(* Refresh, use and logout                                                 *)

(* A fault: decode_token(check_revoked=False)                              *)
Unexpired(t) == t \in live

(* decode_token                                                            *)
Decodes(t) == t \in live \ revoked

(* refresh_token_endpoint up to its SELECT                                 *)
BeginRefresh(h) ==
    /\ Decodes(Refresh) /\ Enter(h, "refresh", "account")
    /\ UNCHANGED <<storeVars, active, tokenVars, historyVars>>

EndRefresh(h) ==
    /\ At(h, "refresh", "account")
    /\ IF active
         THEN /\ Issue /\ Pass(h, {"session", "account"})
              /\ UNCHANGED <<ended, exchanged, overlapped>>
         ELSE UNCHANGED <<issued, live, historyVars>>
    /\ Rest(h)
    /\ UNCHANGED <<storeVars, active, revoked, forgotten>>

(* get_current_user up to its SELECT, and the handler let in.              *)
BeginUse(h, t) ==
    /\ Decodes(t) /\ Enter(h, "use", "account")
    /\ UNCHANGED <<storeVars, active, tokenVars, historyVars>>

EndUse(h) ==
    /\ At(h, "use", "account")
    /\ IF active THEN Pass(h, {"account"}) ELSE UNCHANGED late
    /\ Rest(h)
    /\ UNCHANGED <<storeVars, active, tokenVars, ended, exchanged, overlapped>>

(* websocket_live decodes the token and looks at its type, and opens: it   *)
(* does not read the account, nor the token again once it is open.         *)
OpenSocket(t) ==
    /\ Decodes(t)
    /\ late' = IF "account" \in ended THEN late \cup {"socket"} ELSE late
    /\ UNCHANGED <<storeVars, active, tokenVars, request, ended, exchanged, overlapped>>

(* logout revokes the access token of its header, then the refresh token   *)
(* when the body has it; other access tokens of the session stay.          *)
BeginLogout(h, t) ==
    /\ t \in live /\ Enter(h, "logout", "body")
    /\ revoked' = revoked \cup {t}
    /\ UNCHANGED <<storeVars, active, live, issued, forgotten, historyVars>>

EndLogout(h) ==
    /\ At(h, "logout", "body")
    /\ \E presented \in SUBSET ({Refresh} \cap live) :
          /\ revoked' = revoked \cup presented
          /\ ended' = IF presented = {} THEN ended ELSE ended \cup {"session"}
    /\ Rest(h)
    /\ UNCHANGED <<storeVars, active, live, issued, forgotten, late, exchanged,
                   overlapped>>

(* A token expires; its entry in the denylist lives at least as long.      *)
Expire(t) ==
    /\ t \in live /\ live' = live \ {t}
    /\ revoked' = revoked \ {t}
    /\ UNCHANGED <<storeVars, active, issued, forgotten, request, historyVars>>

(* deactivate_team_member commits.                                         *)
Deactivate ==
    /\ active /\ active' = FALSE /\ ended' = ended \cup {"account"}
    /\ UNCHANGED <<storeVars, tokenVars, request, late, exchanged, overlapped>>

-----------------------------------------------------------------------------
(* Auditor links                                                           *)

(* create_auditor_link                                                     *)
CreateLink ==
    /\ "link" \notin store \cup ended /\ store' = store \cup {"link"}
    /\ UNCHANGED <<redis, grant, active, tokenVars, request, historyVars>>

(* auditor_token_login finds the link, reads the shared auditor account    *)
(* (whose is_active it does not look at), and issues a token for that      *)
(* account, which is not followed further.                                 *)
BeginLinkLogin(h) ==
    /\ "link" \in store /\ Enter(h, "link", "account")
    /\ UNCHANGED <<storeVars, active, tokenVars, historyVars>>

EndLinkLogin(h) ==
    /\ At(h, "link", "account") /\ Pass(h, {"link"}) /\ Rest(h)
    /\ UNCHANGED <<storeVars, active, tokenVars, ended, exchanged, overlapped>>

(* revoke_auditor_link, and the end of the link's time to live.            *)
RevokeLink ==
    /\ "link" \in store /\ store' = store \ {"link"} /\ ended' = ended \cup {"link"}
    /\ UNCHANGED <<redis, grant, active, tokenVars, request, late, exchanged, overlapped>>

(* State and code expire in the store; _purge_memory drops any key when    *)
(* there are too many, a link's too.                                       *)
ForgetKey ==
    /\ \E key \in store : (key = "link" => ~redis) /\ store' = store \ {key}
    /\ UNCHANGED <<redis, grant, active, tokenVars, request, historyVars>>

-----------------------------------------------------------------------------
(* What the memory forgets                                                 *)

Forget(lost) ==
    revoked' = revoked \ lost /\ forgotten' = (forgotten \/ Refresh \in lost)

(* _purge_revoked drops revocations of tokens that have not expired when   *)
(* there are too many, of all accounts together.                           *)
EvictRevoked(t) ==
    /\ ~redis /\ t \in revoked /\ Forget({t})
    /\ UNCHANGED <<storeVars, active, live, issued, request, historyVars>>

(* A server stops and starts again: its requests go unanswered, and with   *)
(* it goes the memory, that of the dictionaries of session_store.          *)
Restart(dead) ==
    /\ request' = [h \in Requests |-> IF h \in dead THEN Resting ELSE request[h]]
    /\ IF redis
         THEN UNCHANGED <<store, revoked, forgotten>>
         ELSE dead = Requests /\ store' = {} /\ Forget(revoked)
    /\ UNCHANGED <<redis, grant, active, live, issued, historyVars>>

TokensNext ==
    \/ SsoLogin \/ Deactivate \/ CreateLink \/ RevokeLink \/ ForgetKey
    \/ \E t \in Access \cup {Refresh} : Expire(t) \/ EvictRevoked(t)
    \/ \E t \in Access : OpenSocket(t)
    \/ \E dead \in SUBSET Requests : Restart(dead)
    \/ \E h \in Requests :
          \/ Callback(h) \/ Exchange(h) \/ Delete(h) \/ AskProvider(h)
          \/ StoreTokens(h) \/ HandOut(h) \/ BeginRefresh(h) \/ EndRefresh(h)
          \/ EndUse(h) \/ EndLogout(h) \/ BeginLinkLogin(h) \/ EndLinkLogin(h)
          \/ \E t \in Access : BeginUse(h, t) \/ BeginLogout(h, t)

-----------------------------------------------------------------------------
(* Properties                                                              *)

(* The types of the store, of the tokens and of the requests.              *)
TokensTypeOK ==
    /\ {redis, active, overlapped, forgotten} \subseteq BOOLEAN
    /\ store \subseteq {"state", "code", "link"}
    /\ grant \in {"unborn", "fresh", "used"}
    /\ live \subseteq Access \cup {Refresh} /\ revoked \subseteq live
    /\ issued \in 0..MaxTokens /\ exchanged \in 0..Cardinality(Requests)
    /\ request \in [Requests -> [op: {"idle", "callback", "exchange", "refresh",
                                      "use", "logout", "link"},
                                 at: {"", "delete", "taken", "account", "body"},
                                 after: SUBSET Doors]]
    /\ ended \subseteq Doors /\ late \subseteq Doors

(* What has been ended stays ended for every request that begins after the *)
(* answer: no access token comes from a refresh token that was logged out, *)
(* unless the memory forgot that, from that of a deactivated account, or   *)
(* from a revoked link; and a deactivated account reaches no handler but   *)
(* the live feed's.  Redis forgets no revocation.                          *)
RevocationHolds ==
    /\ late \subseteq {"session", "socket"}
    /\ "session" \in late => forgotten
    /\ forgotten => ~redis

(* One sign-in is handed out once: twice only from Redis, to two requests  *)
(* of which one read the code before the other had deleted it.             *)
HandedOutOnce == exchanged > 1 => redis /\ overlapped
=============================================================================
