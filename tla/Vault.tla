-------------------------------- MODULE Vault --------------------------------
(***************************************************************************)
(* The secrets vault of one user: the session that UserSecretsStore (a     *)
(* Durable Object) keeps in memory, the browser tabs that open and close   *)
(* it over WebSockets, and the agent, whose SecretsClient asks for secrets *)
(* and waits for the user to unlock the vault.                             *)
(*                                                                         *)
(* A step is one handler of one party; messages of one socket stay in      *)
(* order, messages of different sockets do not.                            *)
(***************************************************************************)
EXTENDS Naturals, Sequences, FiniteSets

CONSTANTS
  Tabs,
  Sockets,    \* vault sockets in use (bound)
  Clients,    \* SecretsClient objects in use (bound)
  Getters,    \* calls of getDecryptedSecret
  MaxChat,    \* messages of a tab under way to the agent (bound)
  None

ASSUME VaultAssumption ==
  /\ MaxChat \in Nat \ {0}
  /\ None \notin Tabs \cup Sockets \cup Clients \cup Getters

VARIABLES
  session,   \* UserSecretsStore.session, by the socket that opened it
  stale,     \* it has not been used for SESSION_TIMEOUT_MS
  sock,      \* the vault sockets
  tab,       \* the VaultProvider of each tab
  chat,      \* messages of each tab under way to the agent
  leaving,   \* close events of chat connections under way to the agent
  current,   \* the agent's secretsClient
  unlock,    \* the clients whose unlockPromise is pending, its timer armed
  getter     \* the calls of SecretsClient.get

vars == <<session, stale, sock, tab, chat, leaving, current, unlock, getter>>

storeVars == <<session, stale>>
agentVars == <<current, unlock, getter>>
userVars  == <<sock, tab, chat, leaving>>

-------------------------------------------------------------------------------
(* Types *)

Socket == [state : {"unused", "opening", "open", "closed"},
           tab   : Tabs \cup {None},
           inbox : Seq({"init", "lock", "close"}),  \* for the store
           ready : BOOLEAN]                         \* for the tab

Tab == [status    : {"locked", "unlocked"},
        ws        : Sockets \cup {None},            \* vaultWsRef
        unlocking : Sockets \cup {None}]            \* connectVaultWebSocket

Getter == [stage : {"idle"}, client : {None}] \cup
          [stage : {"asking", "locked", "waiting", "retrying"}, client : Clients]

TypeOK ==
  /\ session \in Sockets \cup {None}
  /\ stale \in BOOLEAN
  /\ sock \in [Sockets -> Socket]
  /\ tab \in [Tabs -> Tab]
  /\ chat \in [Tabs -> Seq({"vault_unlocked", "vault_locked"})]
  /\ leaving \in Nat
  /\ current \in Clients \cup {None}
  /\ unlock \subseteq Clients
  /\ getter \in [Getters -> Getter]

Unused == [state |-> "unused", tab |-> None, inbox |-> <<>>, ready |-> FALSE]

NewTab == [status |-> "locked", ws |-> None, unlocking |-> None]

Idle == [stage |-> "idle", client |-> None]

Init ==
  /\ session = None
  /\ stale = FALSE
  /\ sock = [s \in Sockets |-> Unused]
  /\ tab = [t \in Tabs |-> NewTab]
  /\ chat = [t \in Tabs |-> <<>>]
  /\ leaving = 0
  /\ current = None
  /\ unlock = {}
  /\ getter = [g \in Getters |-> Idle]

-------------------------------------------------------------------------------
(* UserSecretsStore *)

\* clearSession
ClearSession ==
  /\ session' = None
  /\ stale' = FALSE

\* Mutant: the end of a socket leaves the session alone.
HandleAndKeep(s) ==
  /\ sock[s].inbox # <<>>
  /\ LET event == Head(sock[s].inbox)
         rest  == [sock[s] EXCEPT !.inbox = Tail(@)]
     IN  \/ /\ event = "init"
            /\ session' = s
            /\ stale' = FALSE
            /\ sock' = [sock EXCEPT ![s] = [rest EXCEPT !.ready = (rest.state = "open")]]
         \/ /\ event = "lock"
            /\ ClearSession
            /\ sock' = [sock EXCEPT ![s] = rest]
         \/ /\ event = "close"
            /\ sock' = [sock EXCEPT ![s] = Unused]
            /\ UNCHANGED storeVars
  /\ UNCHANGED <<tab, chat, leaving, agentVars>>

\* webSocketMessage, webSocketClose and webSocketError.  The end of any socket
\* clears the session, whoever opened it.
Handle(s) ==
  /\ sock[s].inbox # <<>>
  /\ LET event == Head(sock[s].inbox)
         rest  == [sock[s] EXCEPT !.inbox = Tail(@)]
     IN  \/ /\ event = "init"
            /\ session' = s
            /\ stale' = FALSE
            /\ sock' = [sock EXCEPT ![s] = [rest EXCEPT !.ready = (rest.state = "open")]]
         \/ /\ event = "lock"
            /\ ClearSession
            /\ sock' = [sock EXCEPT ![s] = rest]
         \/ /\ event = "close"
            /\ ClearSession
            /\ sock' = [sock EXCEPT ![s] = Unused]
  /\ UNCHANGED <<tab, chat, leaving, agentVars>>

\* validateAndRefreshSession, for a request about a secret: an expired session
\* is cleared, any other one is fresh again.
Use == /\ session' = IF stale THEN None ELSE session
       /\ stale' = FALSE

\* A tab stores, lists, reads, changes or deletes a secret.
TabUses(s) ==
  /\ sock[s].state = "open"
  /\ session # None
  /\ Use
  /\ UNCHANGED <<userVars, agentVars>>

TimePasses ==
  /\ session # None
  /\ ~stale
  /\ stale' = TRUE
  /\ UNCHANGED <<session, userVars, agentVars>>

\* alarm() and isVaultUnlocked() clear a session that has expired.
Expire ==
  /\ stale
  /\ ClearSession
  /\ UNCHANGED <<userVars, agentVars>>

\* The runtime hibernates the object: its sockets stay open, its memory goes.
\* lockVault() and resetVault() do the same to the session.
Forget ==
  /\ session # None
  /\ ClearSession
  /\ UNCHANGED <<userVars, agentVars>>

-------------------------------------------------------------------------------
(* The tabs *)

\* sendVaultStatusToAgent, when the status of the tab changes.
Show(t, status, ws, unlocking) ==
  /\ tab' = [tab EXCEPT ![t] = [status |-> status, ws |-> ws, unlocking |-> unlocking]]
  /\ chat' = IF status = tab[t].status THEN chat
             ELSE [chat EXCEPT ![t] =
                     Append(@, IF status = "unlocked" THEN "vault_unlocked"
                               ELSE "vault_locked")]

CanTell(t) == Len(chat[t]) < MaxChat

\* The user gives the password; the tab opens a socket for the session, and
\* leaves an earlier one open.
Unlock(t) ==
  /\ tab[t].unlocking = None
  /\ \E s \in Sockets :
       /\ sock[s].state = "unused"
       /\ \A u \in Tabs : s \notin {tab[u].ws, tab[u].unlocking}
       /\ sock' = [sock EXCEPT ![s] = [Unused EXCEPT !.state = "opening", !.tab = t]]
       /\ tab' = [tab EXCEPT ![t].unlocking = s]
  /\ UNCHANGED <<storeVars, chat, leaving, agentVars>>

\* onopen: the session keys are sent.
Opens(s) ==
  /\ sock[s].state = "opening"
  /\ sock' = [sock EXCEPT ![s].state = "open", ![s].inbox = <<"init">>]
  /\ UNCHANGED <<storeVars, tab, chat, leaving, agentVars>>

\* vault_session_ready.  Only the unlock that is still waiting for it makes
\* the tab show an unlocked vault.
Ready(s) ==
  /\ sock[s].ready
  /\ sock[s].state = "open"
  /\ sock' = [sock EXCEPT ![s].ready = FALSE]
  /\ LET t == sock[s].tab IN
       /\ CanTell(t)
       /\ IF tab[t].unlocking = s THEN Show(t, "unlocked", s, None)
          ELSE Show(t, tab[t].status, s, tab[t].unlocking)
  /\ UNCHANGED <<storeVars, leaving, agentVars>>

\* Ten seconds have passed, or an error came: the unlock fails and its socket
\* stays as it is.
UnlockFails(t) ==
  /\ tab[t].unlocking # None
  /\ tab' = [tab EXCEPT ![t].unlocking = None]
  /\ UNCHANGED <<storeVars, sock, chat, leaving, agentVars>>

\* A socket that ends: the store hears of it after what was sent before.
Ended(k) ==
  IF k.state = "open"
  THEN [k EXCEPT !.state = "closed", !.inbox = Append(@, "close"), !.ready = FALSE]
  ELSE Unused

\* lockVault
Lock(t) ==
  /\ tab[t].status = "unlocked" \/ tab[t].ws # None
  /\ CanTell(t)
  /\ LET s == tab[t].ws
         told == [sock[s] EXCEPT !.inbox = Append(@, "lock")]
     IN  sock' = IF s = None THEN sock ELSE [sock EXCEPT ![s] = Ended(told)]
  /\ Show(t, "locked", None, tab[t].unlocking)
  /\ UNCHANGED <<storeVars, leaving, agentVars>>

\* refreshStatus: unlocked only while the socket of the session is open.
Refresh(t) ==
  /\ tab[t].ws = None
  /\ tab[t].status = "unlocked"
  /\ CanTell(t)
  /\ Show(t, "locked", None, tab[t].unlocking)
  /\ UNCHANGED <<storeVars, sock, leaving, agentVars>>

\* The network drops a vault socket; the tab forgets it and shows no change.
SocketDrops(s) ==
  /\ sock[s].state \in {"opening", "open"}
  /\ sock' = [sock EXCEPT ![s] = Ended(@)]
  /\ tab' = [t \in Tabs |->
               [tab[t] EXCEPT !.ws = IF @ = s THEN None ELSE @,
                              !.unlocking = IF @ = s THEN None ELSE @]]
  /\ UNCHANGED <<storeVars, chat, leaving, agentVars>>

\* The tab is closed or loaded again: all its sockets end, what it had sent to
\* the agent arrives or not, and the new page tells a locked vault.
TabReloads(t) ==
  /\ leaving = 0
  /\ sock' = [s \in Sockets |->
                IF sock[s].tab = t /\ sock[s].state \in {"opening", "open"}
                THEN Ended(sock[s]) ELSE sock[s]]
  /\ tab' = [tab EXCEPT ![t] = NewTab]
  /\ chat' = [chat EXCEPT ![t] = <<"vault_locked">>]
  /\ leaving' = 1
  /\ UNCHANGED <<storeVars, agentVars>>

\* The chat connection is lost and opened again; the status is told anew, and
\* may arrive before the agent notices that the old connection is gone.
ChatReconnects(t) ==
  /\ leaving = 0
  /\ chat' = [chat EXCEPT ![t] = IF tab[t].status = "unlocked" THEN <<"vault_unlocked">>
                                 ELSE <<"vault_locked">>]
  /\ leaving' = 1
  /\ UNCHANGED <<storeVars, sock, tab, agentVars>>

-------------------------------------------------------------------------------
(* The agent and its SecretsClient *)

Waiters(c) == {g \in Getters : getter[g].stage = "waiting" /\ getter[g].client = c}

\* The unlock promise of client c is settled: its timer is cleared and
\* everyone who awaits it goes on.
Settle(c, next) ==
  /\ unlock' = unlock \ {c}
  /\ getter' = [g \in Getters |-> IF g \in Waiters(c) THEN next[g] ELSE getter[g]]

\* What a waiter does when the promise is resolved, and when it is rejected.
Again  == [g \in Getters |-> [getter[g] EXCEPT !.stage = "retrying"]]
GiveUp == [g \in Getters |-> Idle]

\* Mutant: the promise is dropped without being resolved.
NotifyNobody ==
  /\ unlock' = unlock \ {current}
  /\ UNCHANGED <<current, getter>>

\* handleVaultUnlocked
NotifyUnlocked ==
  /\ IF current = None THEN UNCHANGED <<unlock, getter>> ELSE Settle(current, Again)
  /\ UNCHANGED current

\* handleVaultLocked
NotifyLocked ==
  /\ IF current = None THEN UNCHANGED <<unlock, getter>> ELSE Settle(current, GiveUp)
  /\ current' = None

ChatArrives(t) ==
  /\ chat[t] # <<>>
  /\ chat' = [chat EXCEPT ![t] = Tail(@)]
  /\ IF Head(chat[t]) = "vault_unlocked" THEN NotifyUnlocked ELSE NotifyLocked
  /\ UNCHANGED <<storeVars, sock, tab, leaving>>

\* handleWebSocketClose
ChatCloses ==
  /\ leaving > 0
  /\ leaving' = leaving - 1
  /\ NotifyLocked
  /\ UNCHANGED <<storeVars, sock, tab, chat>>

\* A client nobody holds any more.
Fresh(c) == /\ c # current /\ c \notin unlock
            /\ \A g \in Getters : getter[g].client # c

\* getDecryptedSecret, with getSecretsClient: an RPC is sent to the store.
Get(g) ==
  /\ getter[g].stage = "idle"
  /\ \/ current # None /\ current' = current
     \/ current = None /\ \E c \in Clients : Fresh(c) /\ current' = c
  /\ getter' = [getter EXCEPT ![g] = [stage |-> "asking", client |-> current']]
  /\ UNCHANGED <<storeVars, userVars, unlock>>

\* requestSecret.  An expired session gives no secret and no prompt either;
\* only a missing one makes the client wait.
StoreAnswers(g) ==
  /\ getter[g].stage = "asking"
  /\ Use
  /\ getter' = [getter EXCEPT ![g] =
                  IF session = None THEN [@ EXCEPT !.stage = "locked"] ELSE Idle]
  /\ UNCHANGED <<userVars, current, unlock>>

\* The second request after an unlock: its answer is the answer.
Retry(g) ==
  /\ getter[g].stage = "retrying"
  /\ Use
  /\ getter' = [getter EXCEPT ![g] = Idle]
  /\ UNCHANGED <<userVars, current, unlock>>

\* The RPC fails.
RpcFails(g) ==
  /\ getter[g].stage \in {"asking", "retrying"}
  /\ getter' = [getter EXCEPT ![g] = Idle]
  /\ UNCHANGED <<storeVars, userVars, current, unlock>>

\* requestUnlock: 'vault_locked' has arrived; the first to come sets the timer
\* and prompts the user.
RequestUnlock(g) ==
  /\ getter[g].stage = "locked"
  /\ getter' = [getter EXCEPT ![g].stage = "waiting"]
  /\ unlock' = unlock \cup {getter[g].client}
  /\ UNCHANGED <<storeVars, userVars, current>>

\* Mutant: the timer goes with the client.
TimesOutIfCurrent(c) ==
  /\ c \in unlock
  /\ c = current
  /\ Settle(c, GiveUp)
  /\ UNCHANGED <<storeVars, userVars, current>>

UnlockTimesOut(c) ==
  /\ c \in unlock
  /\ Settle(c, GiveUp)
  /\ UNCHANGED <<storeVars, userVars, current>>

-------------------------------------------------------------------------------

Next ==
  \/ \E s \in Sockets :
       Handle(s) \/ TabUses(s) \/ Opens(s) \/ Ready(s) \/ SocketDrops(s)
  \/ TimePasses \/ Expire \/ Forget
  \/ \E t \in Tabs :
       \/ Unlock(t) \/ UnlockFails(t) \/ Lock(t) \/ Refresh(t)
       \/ TabReloads(t) \/ ChatReconnects(t) \/ ChatArrives(t)
  \/ ChatCloses
  \/ \E g \in Getters :
       Get(g) \/ StoreAnswers(g) \/ Retry(g) \/ RpcFails(g) \/ RequestUnlock(g)
  \/ \E c \in Clients : UnlockTimesOut(c)

Spec == Init /\ [][Next]_vars

\* RPCs are answered, or fail, and timers fire.  No user need do anything, and
\* no message of a tab need arrive.
FairSpec ==
  /\ Spec
  /\ \A g \in Getters : WF_vars(StoreAnswers(g) \/ Retry(g) \/ RequestUnlock(g))
  /\ \A c \in Clients : WF_vars(UnlockTimesOut(c))

-------------------------------------------------------------------------------
(* Properties *)

\* A session never outlives the socket that opened it: that socket is open, or
\* the store has still to hear that it is not.  Sessions replace each other,
\* and sockets end in any order.
SessionHasSocket ==
  session # None =>
    \/ sock[session].state = "open"
    \/ \E i \in 1..Len(sock[session].inbox) : sock[session].inbox[i] = "close"

\* Whoever waits for the user waits on a promise that is pending and has its
\* timer, also when the agent has long dropped the client it belongs to; and
\* no promise is pending, with the user prompted, that nobody waits on.
WaitersPrompted ==
  unlock = {getter[g].client : g \in {h \in Getters : getter[h].stage = "waiting"}}

\* A call of getDecryptedSecret returns, with a value or without, whatever
\* tabs, sockets and the store do in the meantime.
EveryGetEnds ==
  \A g \in Getters : getter[g].stage # "idle" ~> getter[g].stage = "idle"
===============================================================================
