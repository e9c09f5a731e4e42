------------------------------- MODULE ApiAuth -------------------------------
(***************************************************************************)
(* How one API process recognises its callers: the user of the web client  *)
(* and of MCP clients, and the agent with a service account.  A token is   *)
(* verified with a signing key from the JWKS cache, which is refreshed     *)
(* under a lock, within a budget when a key is missing from fresh entries; *)
(* then the caller's row of `users` is looked up and, on a first login,    *)
(* inserted.  Other processes, the operator's command line and the         *)
(* identity provider act meanwhile.                                        *)
(*                                                                         *)
(* On /v1 a refusal is the HTTP status, on /mcp the same error inside an   *)
(* answer 200.  What a token may carry (expiry, client, scopes, email) is  *)
(* left to choice.                                                         *)
(***************************************************************************)
EXTENDS Naturals, FiniteSets

CONSTANTS Checks,    \* requests whose token is being checked
          MaxKeys,   \* signing keys the provider ever has
          MaxMisses  \* _JWKS_MISS_REFRESH_MAX_PER_WINDOW

ASSUME ApiAuthAssumption == MaxKeys \in Nat \ {0} /\ MaxMisses \in Nat \ {0}

VARIABLES signing,   \* the provider's key
          published, \* the keys in its JWKS document
          cached,    \* the keys of the entry
          fresh,     \* the entry is there and has not expired
          misses,    \* refreshes of the current window that a missing key caused
          step,      \* [Checks -> where the check is]
          token,     \* [Checks -> what the token says, while it is being checked]
          users,     \* [Callers -> rows of the caller: spelling of the email, number]
          known      \* [Callers -> rows that accepted calls were for] (history)

apiVars ==
  <<signing, published, cached, fresh, misses, step, token, users, known>>

Keys == 1..MaxKeys
Callers == {"user", "agent"}

\* What the unverified payload says decides who verifies the token.
Issuers == {"api", "provider"}

\* Key 0 is one the provider does not have.  Only users have tokens of the API itself.
Token == {t \in [caller : Callers, issuer : Issuers, key : 0..MaxKeys] :
            t.issuer = "api" => t.caller = "user" /\ t.key = 0}

NoToken == [caller |-> "user", issuer |-> "api", key |-> 0]

\* users.email is unique as it is spelled; provisioning spells it in lower case.
Spellings == {"lower", "mixed"}
Rows == Spellings \X (Nat \ {0})

ApiTypeOK ==
  /\ signing \in Keys /\ published \subseteq 1..signing /\ cached \subseteq 1..signing
  /\ fresh \in BOOLEAN /\ misses \in 0..MaxMisses
  /\ token \in [Checks -> Token]
  /\ step \in [Checks -> {"idle", "legacy", "key", "missed", "stale", "fetch",
                          "claims", "lookup", "insert"}]
  /\ users \in [Callers -> SUBSET Rows] /\ known \in [Callers -> SUBSET Rows]
  \* One refresh at a time, and accounts outlive what they were resolved for.
  /\ Cardinality({c \in Checks : step[c] = "fetch"}) <= 1
  /\ \A p \in Callers : known[p] \subseteq users[p]

ApiInit ==
  /\ signing = 1 /\ published = {1}
  /\ cached = {} /\ fresh = FALSE /\ misses = 0
  /\ step = [c \in Checks |-> "idle"]
  /\ token = [c \in Checks |-> NoToken]
  /\ users = [p \in Callers |-> {}] /\ known = [p \in Callers |-> {}]

-----------------------------------------------------------------------------
KeepCache == UNCHANGED <<cached, fresh, misses>>
KeepUsers == UNCHANGED <<users, known>>
KeepKeys == UNCHANGED <<signing, published>>

Go(c, s) == step' = [step EXCEPT ![c] = s] /\ UNCHANGED token

\* The check ends, with an answer: the request goes on, or AgentError with its status.
End(c) ==
  /\ step' = [step EXCEPT ![c] = "idle"]
  /\ token' = [token EXCEPT ![c] = NoToken]

Accept(c, row) ==
  /\ End(c)
  /\ known' = [known EXCEPT ![token[c].caller] = @ \cup {row}]

Key(c) == token[c].key

-----------------------------------------------------------------------------
(* Dispatch and keys.                                                      *)

\* get_current_user and resolve_mcp_token alike.
Dispatch(t) == IF t.issuer = "api" THEN "legacy" ELSE "key"

\* A request without a token, or with another sort of header, gets its answer at once: on
\* /mcp the challenge when the header is missing, an error of the tool when it is no bearer.
Arrive(c) ==
  /\ step[c] = "idle"
  /\ \E t \in Token :
       /\ t.key <= signing
       /\ token' = [token EXCEPT ![c] = t]
       /\ step' = [step EXCEPT ![c] = Dispatch(t)]
  /\ KeepKeys /\ KeepCache /\ KeepUsers

\* The API's own token is expired or invalid, or its row is gone.
LegacyRefused(c) ==
  /\ step[c] = "legacy"
  /\ End(c)
  /\ KeepKeys /\ KeepCache /\ KeepUsers

\* It names a row, which the API looks up.
LegacyAccepted(c) ==
  /\ step[c] = "legacy"
  /\ \E row \in users["user"] : Accept(c, row) /\ UNCHANGED users
  /\ KeepKeys /\ KeepCache

\* get_key without the lock: a hit in a fresh entry, or the lock is needed.
LookForKey(c) ==
  /\ step[c] = "key"
  /\ Go(c, CASE fresh /\ Key(c) \in cached -> "claims"
             [] fresh -> "missed"
             [] OTHER -> "stale")
  /\ KeepKeys /\ KeepCache /\ KeepUsers

LockFree == \A c \in Checks : step[c] # "fetch"

\* Variant: the entry is not looked at again once the lock is held.
NeverThere(c) == FALSE

\* Another check may have refreshed the entry while this one waited for the lock.
NowThere(c) == Key(c) \in cached

\* A key was missing from a fresh entry: the refresh takes a slot of the budget.
MissedKey(c) ==
  /\ step[c] = "missed" /\ LockFree
  /\ \/ NowThere(c) /\ Go(c, "claims") /\ UNCHANGED misses
     \/ ~NowThere(c) /\ misses = MaxMisses /\ End(c) /\ UNCHANGED misses
     \/ ~NowThere(c) /\ misses < MaxMisses /\ misses' = misses + 1 /\ Go(c, "fetch")
  /\ UNCHANGED <<cached, fresh>> /\ KeepKeys /\ KeepUsers

\* The entry had expired, or there was none: who comes second takes what the first brought.
StaleEntry(c) ==
  /\ step[c] = "stale" /\ LockFree
  /\ \/ ~fresh /\ Go(c, "fetch")
     \/ fresh /\ Key(c) \in cached /\ Go(c, "claims")
     \/ fresh /\ Key(c) \notin cached /\ End(c)
  /\ KeepKeys /\ KeepCache /\ KeepUsers

\* _refresh: the whole entry is replaced, or none of it.
Fetch(c) ==
  /\ step[c] = "fetch"
  /\ \/ /\ cached' = published /\ fresh' = TRUE
        /\ IF Key(c) \in published THEN Go(c, "claims") ELSE End(c)
     \/ End(c) /\ UNCHANGED <<cached, fresh>>
  /\ UNCHANGED misses /\ KeepKeys /\ KeepUsers

-----------------------------------------------------------------------------
(* Claims and accounts.                                                    *)

\* Signature, expiry and shape are 401, an unknown client or scopes past its cap 403.
ClaimsRefused(c) ==
  /\ step[c] = "claims"
  /\ End(c)
  /\ KeepKeys /\ KeepCache /\ KeepUsers

\* Agents are refused on /v1; on /mcp those without a service account go on without a row.
AgentEnds(c) ==
  /\ step[c] = "claims" /\ token[c].caller = "agent"
  /\ End(c)
  /\ KeepKeys /\ KeepCache /\ KeepUsers

ClaimsAccepted(c) ==
  /\ step[c] = "claims"
  /\ Go(c, "lookup")
  /\ KeepKeys /\ KeepCache /\ KeepUsers

Mine(c) == users[token[c].caller]

TakeMine(c) == (\E row \in Mine(c) : Accept(c, row)) /\ UNCHANGED users

\* The domain of the email is not on the list of those who are given an account.
NotAllowed(c) == Mine(c) = {} /\ End(c) /\ KeepUsers

\* SELECT by LOWER(email): one row, none, or more than one.
LookUpUser(c) ==
  /\ step[c] = "lookup" /\ token[c].caller = "user"
  /\ \/ Cardinality(Mine(c)) = 1 /\ TakeMine(c)
     \/ Cardinality(Mine(c)) > 1 /\ End(c) /\ KeepUsers
     \/ Mine(c) = {} /\ Go(c, "insert") /\ KeepUsers
     \/ NotAllowed(c)
  /\ KeepKeys /\ KeepCache

\* The email of a service account is made up of its client id, and only provisioning uses it.
LookUpAgent(c) ==
  /\ step[c] = "lookup" /\ token[c].caller = "agent"
  /\ IF Mine(c) = {} THEN Go(c, "insert") /\ KeepUsers ELSE TakeMine(c)
  /\ KeepKeys /\ KeepCache

Spelled(p, s) == {row \in users[p] : row[1] = s}

\* Variant: the column without its constraint.
NoClash(p, s) == FALSE

\* The unique constraint of users.email.
Clash(p, s) == Spelled(p, s) # {}

AddRow(p, s) == users' = [users EXCEPT ![p] = @ \cup {<<s, Cardinality(Spelled(p, s)) + 1>>}]

\* Provisioning: who loses the race for the row reads the row of who won.
Provision(c) ==
  LET p == token[c].caller IN
  /\ step[c] = "insert"
  /\ \/ /\ Clash(p, "lower") /\ UNCHANGED users
        /\ \E row \in Spelled(p, "lower") : Accept(c, row)
     \/ /\ ~Clash(p, "lower") /\ AddRow(p, "lower")
        /\ Accept(c, <<"lower", Cardinality(Spelled(p, "lower")) + 1>>)
  /\ KeepKeys /\ KeepCache

\* create-user and provision-operator keep the spelling they are given.
CommandLine ==
  /\ \E s \in Spellings : ~Clash("user", s) /\ AddRow("user", s)
  /\ UNCHANGED <<step, token, known>> /\ KeepKeys /\ KeepCache

-----------------------------------------------------------------------------
(* The provider and time.                                                  *)

RotateKey ==
  /\ signing < MaxKeys /\ signing' = signing + 1
  /\ published' \in {{signing'}, published \cup {signing'}}
  /\ UNCHANGED <<step, token>> /\ KeepCache /\ KeepUsers

TimePasses ==
  /\ \/ fresh /\ fresh' = FALSE /\ UNCHANGED misses
     \/ misses > 0 /\ misses' = misses - 1 /\ UNCHANGED fresh
  /\ UNCHANGED <<cached, step, token>> /\ KeepKeys /\ KeepUsers

ApiNext ==
  \/ \E c \in Checks :
       \/ Arrive(c) \/ LegacyRefused(c) \/ LegacyAccepted(c)
       \/ LookForKey(c) \/ MissedKey(c) \/ StaleEntry(c) \/ Fetch(c)
       \/ ClaimsRefused(c) \/ AgentEnds(c) \/ ClaimsAccepted(c)
       \/ LookUpUser(c) \/ LookUpAgent(c) \/ Provision(c)
  \/ CommandLine \/ RotateKey \/ TimePasses

-----------------------------------------------------------------------------
\* However first logins race, a caller is one account for every call that is accepted,
\* as long as no operator adds a second spelling of the email; and requests that meet the
\* same new key together pay for one refresh: no slot goes to a key that is in the entry.
CallerRecognised ==
  /\ [](\A p \in Callers : Cardinality(known[p]) > 1 => \A s \in Spellings : Spelled(p, s) # {})
  /\ [][misses' > misses => \E c \in Checks : step[c] = "missed" /\ step'[c] = "fetch"
                                                /\ Key(c) \notin cached]_apiVars
===============================================================================
