------------------------------ MODULE WebSession ------------------------------
(***************************************************************************)
(* The session of a user in the tabs of one browser.  Each tab keeps the   *)
(* tokens in the memory of authStore and persists them to one entry of     *)
(* localStorage, which a tab reads only when its page loads.  apiFetch     *)
(* answers a 401 by refreshing the tokens, once for all requests of the    *)
(* session (attemptTokenRefresh), then sends the request again; when the   *)
(* refresh fails the session ends, provided it is still the one that met   *)
(* the 401.                                                                *)
(*                                                                         *)
(* A session is known by its refresh token; access tokens expire, and the  *)
(* server refuses them, at any moment (ApiAuth says when).  Code between   *)
(* two awaits runs without interruption in a tab, so it is one step.       *)
(***************************************************************************)
EXTENDS Naturals, FiniteSets

CONSTANTS Tabs, Requests,
          MaxTokens  \* refresh tokens that are ever issued

ASSUME WebSessionAssumption == MaxTokens \in Nat \ {0} /\ Tabs # {}

VARIABLES held,     \* [Tabs -> refreshToken in the memory of the tab, 0 for null]
          disk,     \* refreshToken in localStorage
          issued,   \* refresh tokens issued so far are 1..issued
          live,     \* those the server still takes
          page,     \* [Tabs -> what the page is doing besides requests]
          leaving,  \* [Tabs -> token that a sign-out is revoking, 0 when there is none]
          pc,       \* [Requests -> where the request is]
          tab,      \* [Requests -> its tab]
          start,    \* [Requests -> sessionAtStart, once it met a 401]
          flight,   \* [Requests -> the request whose refresh it awaits, itself perhaps]
          reply,    \* [Requests -> what came of the refresh that it started]
          troubled  \* tabs whose token another party used or lost (history)

sessionVars ==
  <<held, disk, issued, live, page, leaving, pc, tab, start, flight, reply, troubled>>

Tokens == 1..MaxTokens

\* reply: 0 while the server is being asked, Lost or Refused when there is no token.
Lost == MaxTokens + 1
Refused == MaxTokens + 2

SessionTypeOK ==
  /\ held \in [Tabs -> 0..issued] /\ disk \in 0..issued
  /\ issued \in 0..MaxTokens /\ live \subseteq 1..issued
  /\ page \in [Tabs -> {"app", "exchange", "me", "rotated", "pending", "error"}]
  /\ leaving \in [Tabs -> 0..issued]
  /\ pc \in [Requests -> {"idle", "sent", "refreshing", "resent"}]
  /\ tab \in [Requests -> Tabs]
  /\ start \in [Requests -> 0..issued]
  /\ flight \in [Requests -> Requests]
  /\ reply \in [Requests -> 0..Refused]
  /\ troubled \subseteq Tabs
  \* A refresh in the air is of a session that was there, and those who wait for it
  \* met their 401 in that session.
  /\ \A r \in Requests : pc[r] = "refreshing" =>
       LET f == flight[r] IN
         /\ pc[f] = "refreshing" /\ flight[f] = f
         /\ tab[f] = tab[r] /\ start[f] = start[r] /\ start[r] # 0

\* The user is signed in, in every tab.
SessionInit ==
  /\ held = [x \in Tabs |-> 1] /\ disk = 1 /\ issued = 1 /\ live = {1}
  /\ page = [x \in Tabs |-> "app"]
  /\ leaving = [x \in Tabs |-> 0]
  /\ pc = [r \in Requests |-> "idle"]
  /\ tab = [r \in Requests |-> CHOOSE x \in Tabs : TRUE]
  /\ start = [r \in Requests |-> 0]
  /\ flight = [r \in Requests |-> r]
  /\ reply = [r \in Requests |-> 0]
  /\ troubled = {}

-----------------------------------------------------------------------------
KeepTokens == UNCHANGED <<issued, live>>
KeepStore == UNCHANGED <<held, disk, troubled>>
KeepRequests == UNCHANGED <<pc, tab, start, flight, reply>>

\* set() of authStore writes the memory of the tab, then localStorage.
SetSession(x, k) ==
  /\ held' = [held EXCEPT ![x] = k] /\ disk' = k
  /\ troubled' = IF k \in {0} \cup live' THEN troubled \ {x} ELSE troubled \cup {x}

Of(x) == {r \in Requests : tab[r] = x}

\* The promises of these requests settle, or die with their page.
Done(rs) ==
  /\ pc' = [r \in Requests |-> IF r \in rs THEN "idle" ELSE pc[r]]
  /\ start' = [r \in Requests |-> IF r \in rs THEN 0 ELSE start[r]]
  /\ flight' = [r \in Requests |-> IF r \in rs THEN r ELSE flight[r]]
  /\ reply' = [r \in Requests |-> IF r \in rs THEN 0 ELSE reply[r]]
  /\ UNCHANGED tab

SetPage(x, p) == page' = [page EXCEPT ![x] = p]

\* The page of the callback, while its getMe is under way.
Entering == {"me", "rotated"}

-----------------------------------------------------------------------------
(* Requests, and the refresh.                                              *)

\* apiFetch, with the access token of the store.
Send(r) ==
  /\ pc[r] = "idle"
  /\ \E x \in Tabs :
       /\ page[x] = "app"
       /\ tab' = [tab EXCEPT ![r] = x]
  /\ pc' = [pc EXCEPT ![r] = "sent"]
  /\ UNCHANGED <<page, leaving, start, flight, reply>> /\ KeepTokens /\ KeepStore

\* Any answer but a first 401.  The callback goes on after getMe, unless the refresh
\* token has changed: then it returns, and the page stays at "pending".
Succeeds(r) ==
  /\ pc[r] \in {"sent", "resent"}
  /\ Done({r})
  /\ SetPage(tab[r], CASE page[tab[r]] = "me" -> "app"
                       [] page[tab[r]] = "rotated" -> "pending"
                       [] OTHER -> page[tab[r]])
  /\ UNCHANGED leaving /\ KeepTokens /\ KeepStore

\* An error, a 401 of the second try included.  The callback ends the session whatever it is.
Fails(r) ==
  /\ pc[r] \in {"sent", "resent"}
  /\ Done({r}) /\ KeepTokens /\ UNCHANGED leaving
  /\ IF page[tab[r]] \in Entering
     THEN SetSession(tab[r], 0) /\ SetPage(tab[r], "error")
     ELSE KeepStore /\ UNCHANGED page

InFlight(f) == pc[f] = "refreshing" /\ flight[f] = f

\* Variant: every 401 refreshes for itself.
NeverInAir(x) == {}

\* The refresh that later 401s of the same session share.
InAir(x) == {f \in Of(x) : InFlight(f) /\ start[f] = held[x]}

\* A 401: sessionAtStart is read now, and attemptTokenRefresh joins or starts a refresh;
\* without a refresh token there is nothing to try, and the session ends.
Unauthorized(r) ==
  LET x == tab[r] IN
  /\ pc[r] = "sent" /\ KeepTokens
  /\ IF held[x] = 0 /\ InAir(x) = {}
     THEN Done({r}) /\ SetSession(x, 0)
     ELSE /\ pc' = [pc EXCEPT ![r] = "refreshing"]
          /\ start' = [start EXCEPT ![r] = held[x]]
          /\ \/ \E f \in InAir(x) : flight' = [flight EXCEPT ![r] = f]
             \/ InAir(x) = {} /\ flight' = [flight EXCEPT ![r] = r]
          /\ UNCHANGED <<tab, reply>> /\ KeepStore
  /\ UNCHANGED <<page, leaving>>

Holding(k) == {x \in Tabs : held[x] = k}

\* The token endpoint hands out a new refresh token in exchange for the old one, or keeps it.
Exchanges(f, answer) ==
  /\ start[f] \in live
  /\ \/ /\ issued < MaxTokens
        /\ issued' = issued + 1
        /\ live' = (live \ {start[f]}) \cup {issued'}
        /\ reply' = [reply EXCEPT ![f] = IF answer = Lost THEN Lost ELSE issued']
        /\ troubled' = troubled \cup
             (IF answer = Lost THEN Holding(start[f]) ELSE Holding(start[f]) \ {tab[f]})
     \/ /\ reply' = [reply EXCEPT ![f] = IF answer = Lost THEN Lost ELSE start[f]]
        /\ troubled' = IF answer = Lost THEN troubled \cup {tab[f]} ELSE troubled
        /\ UNCHANGED <<issued, live>>

\* The server's side of refresh: it answers, its answer is lost, or it is not reached.
AskServer(f) ==
  /\ InFlight(f) /\ reply[f] = 0
  /\ \/ \E answer \in {0, Lost} : Exchanges(f, answer)
     \/ /\ start[f] \notin live
        /\ reply' = [reply EXCEPT ![f] = Refused]
        /\ UNCHANGED <<issued, live, troubled>>
  /\ UNCHANGED <<held, disk, page, leaving, pc, tab, start, flight>>

\* Variant: refresh does not look at the store again.
HeldOrNot(f) == TRUE

\* refresh drops what it got for a session that is no longer the one of the store.
StillHeld(f) == held[tab[f]] = start[f]

\* The refresh resolves, and all who wait for it go on before anything else runs.
Land(f) ==
  LET x == tab[f]
      waiting == {r \in Of(x) : pc[r] = "refreshing" /\ flight[r] = f}
  IN
  /\ InFlight(f) /\ reply[f] # 0 /\ KeepTokens
  /\ IF reply[f] \in Tokens /\ StillHeld(f)
     THEN /\ SetSession(x, reply[f])
          /\ pc' = [r \in Requests |-> IF r \in waiting THEN "resent" ELSE pc[r]]
          /\ start' = [r \in Requests |-> IF r \in waiting THEN 0 ELSE start[r]]
          /\ flight' = [r \in Requests |-> IF r \in waiting THEN r ELSE flight[r]]
          /\ reply' = [reply EXCEPT ![f] = 0]
          /\ SetPage(x, IF page[x] = "me" /\ reply[f] # start[f] THEN "rotated" ELSE page[x])
          /\ UNCHANGED tab
     ELSE /\ Done(waiting)
          /\ IF held[x] = start[f] \/ page[x] \in Entering
             THEN SetSession(x, 0) ELSE KeepStore
          /\ SetPage(x, IF page[x] \in Entering THEN "error" ELSE page[x])
  /\ UNCHANGED leaving

\* A refresh token runs out, or the identity provider revokes it.
TokenDies ==
  /\ \E k \in live : live' = live \ {k} /\ troubled' = troubled \cup Holding(k)
  /\ UNCHANGED <<held, disk, issued, page, leaving>> /\ KeepRequests

-----------------------------------------------------------------------------
(* Sign-out, sign-in and page loads.                                       *)

\* handleLogout: signOutServer revokes the token of now ...
SignOut(x) ==
  /\ page[x] = "app" /\ held[x] # 0 /\ leaving[x] = 0
  /\ leaving' = [leaving EXCEPT ![x] = held[x]]
  /\ UNCHANGED page /\ KeepTokens /\ KeepStore /\ KeepRequests

\* ... if the request gets there ...
Revoked(x) ==
  /\ leaving[x] \in live
  /\ live' = live \ {leaving[x]}
  /\ troubled' = troubled \cup (Holding(leaving[x]) \ {x})
  /\ UNCHANGED <<held, disk, issued, page, leaving>> /\ KeepRequests

\* ... and the tab forgets the session in any case.
SignedOut(x) ==
  /\ leaving[x] # 0
  /\ KeepTokens /\ SetSession(x, 0)
  /\ leaving' = [leaving EXCEPT ![x] = 0]
  /\ UNCHANGED page /\ KeepRequests

\* A page is loaded: what was under way in the tab is gone, and the store is read from disk.
Load(x, p) ==
  /\ Done(Of(x))
  /\ held' = [held EXCEPT ![x] = disk] /\ UNCHANGED disk
  /\ troubled' = IF disk \in {0} \cup live THEN troubled \ {x} ELSE troubled \cup {x}
  /\ SetPage(x, p)
  /\ leaving' = [leaving EXCEPT ![x] = 0]
  /\ KeepTokens

Reload(x) == Load(x, "app")

\* The sign-in page, which is for those without a session, leaves for the identity provider;
\* the callback page comes back from there.
SignIn(x) == page[x] \in {"app", "error"} /\ held[x] = 0 /\ Load(x, "exchange")

\* The callback exchanges its code, stores the tokens and calls getMe.
CodeExchanged(x) ==
  /\ page[x] = "exchange" /\ issued < MaxTokens
  /\ issued' = issued + 1 /\ live' = live \cup {issued'}
  /\ SetSession(x, issued')
  /\ SetPage(x, "me")
  /\ \E r \in Requests :
       /\ pc[r] = "idle"
       /\ pc' = [pc EXCEPT ![r] = "sent"] /\ tab' = [tab EXCEPT ![r] = x]
  /\ UNCHANGED <<leaving, start, flight, reply>>

\* The provider refuses the code, or does not answer: logout(), whatever session there is.
\* A callback without its code or with another state shows the error and does no more.
CodeRefused(x) ==
  /\ page[x] = "exchange" /\ KeepTokens
  /\ SetSession(x, 0) \/ KeepStore
  /\ SetPage(x, "error")
  /\ UNCHANGED leaving /\ KeepRequests

SessionNext ==
  \/ \E r \in Requests :
       Send(r) \/ Succeeds(r) \/ Fails(r) \/ Unauthorized(r) \/ AskServer(r) \/ Land(r)
  \/ \E x \in Tabs :
       \/ SignOut(x) \/ Revoked(x) \/ SignedOut(x)
       \/ Reload(x) \/ SignIn(x) \/ CodeExchanged(x) \/ CodeRefused(x)
  \/ TokenDies

-----------------------------------------------------------------------------
\* A tab drops its session only when the user signs out there, when a sign-in fails there,
\* when a load finds localStorage emptied, or when its token was lost, revoked, or used by
\* another tab; 401s of its own requests, in whatever order they come, never cost it the
\* session.  And a tab without one gets one by signing in or from localStorage, never from
\* a refresh that comes back late.
SessionKept ==
  [][\A x \in Tabs :
       /\ held[x] # 0 /\ held'[x] = 0
            => \/ leaving[x] # 0 \/ x \in troubled \/ disk = 0
               \/ page[x] \in {"exchange"} \cup Entering
       /\ held[x] = 0 /\ held'[x] # 0
            => page[x] = "exchange" \/ held'[x] = disk
    ]_sessionVars
===============================================================================
