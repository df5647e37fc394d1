------------------------------ MODULE VaultProofs ------------------------------
(***************************************************************************)
(* Theorems about Vault, for all tabs, sockets, clients and getters.       *)
(***************************************************************************)
EXTENDS Vault, SequenceTheorems, TLAPS

-------------------------------------------------------------------------------
(* Types of the sockets and of the getters *)

LEMMA UnusedType == Unused \in Socket
  BY DEF Unused, Socket

LEMMA EndedType ==
  ASSUME NEW k \in Socket
  PROVE  Ended(k) \in Socket
  <1>1. k.inbox \in Seq({"init", "lock", "close"})
    BY DEF Socket
  <1>2. Append(k.inbox, "close") \in Seq({"init", "lock", "close"})
    BY <1>1
  <1>3. [k EXCEPT !.state = "closed", !.inbox = Append(@, "close"), !.ready = FALSE] \in Socket
    BY <1>2 DEF Socket
  <1>4. QED
    BY <1>3, UnusedType DEF Ended

LEMMA IdleType == Idle \in Getter /\ Idle.stage = "idle"
  BY DEF Idle, Getter

LEMMA HandleType ==
  ASSUME TypeOK, NEW s \in Sockets, Handle(s)
  PROVE  /\ sock' \in [Sockets -> Socket]
         /\ session' \in Sockets \cup {None}
         /\ stale' \in BOOLEAN
  <1> DEFINE rest == [sock[s] EXCEPT !.inbox = Tail(@)]
             told == [rest EXCEPT !.ready = (rest.state = "open")]
  <1>1. sock[s] \in Socket /\ sock[s].inbox # <<>>
    BY DEF TypeOK, Handle
  <1>2. Tail(sock[s].inbox) \in Seq({"init", "lock", "close"})
    BY <1>1 DEF Socket
  <1>3. rest \in Socket
    BY <1>1, <1>2 DEF Socket
  <1>4. told \in Socket
    <2>1. (rest.state = "open") \in BOOLEAN
      OBVIOUS
    <2> HIDE DEF rest
    <2>2. QED
      BY <1>3, <2>1 DEF Socket
  <1> HIDE DEF rest, told
  <1>5. \/ sock' = [sock EXCEPT ![s] = told]
        \/ sock' = [sock EXCEPT ![s] = rest]
        \/ sock' = [sock EXCEPT ![s] = Unused]
    BY DEF Handle, rest, told
  <1>6. sock' \in [Sockets -> Socket]
    BY <1>3, <1>4, <1>5, UnusedType DEF TypeOK
  <1>7. QED
    BY <1>6 DEF Handle, ClearSession, TypeOK

LEMMA UseType ==
  ASSUME TypeOK, Use
  PROVE  session' \in Sockets \cup {None} /\ stale' \in BOOLEAN
  BY DEF Use, TypeOK

LEMMA ShowType ==
  ASSUME TypeOK, NEW t \in Tabs, NEW status \in {"locked", "unlocked"},
         NEW ws \in Sockets \cup {None}, NEW unlocking \in Sockets \cup {None},
         Show(t, status, ws, unlocking)
  PROVE  /\ tab' \in [Tabs -> Tab]
         /\ chat' \in [Tabs -> Seq({"vault_unlocked", "vault_locked"})]
  <1> DEFINE new == [status |-> status, ws |-> ws, unlocking |-> unlocking]
             words == Append(chat[t], IF status = "unlocked" THEN "vault_unlocked"
                                      ELSE "vault_locked")
  <1>1. new \in Tab
    BY DEF Tab
  <1>2. words \in Seq({"vault_unlocked", "vault_locked"})
    BY DEF TypeOK
  <1> HIDE DEF new, words
  <1>3. /\ tab' = [tab EXCEPT ![t] = new]
        /\ chat' = chat \/ chat' = [chat EXCEPT ![t] = words]
    BY DEF Show, new, words
  <1>4. QED
    BY <1>1, <1>2, <1>3 DEF TypeOK

LEMMA SettleType ==
  ASSUME TypeOK, NEW c, NEW next, \A g \in Waiters(c) : next[g] \in Getter,
         Settle(c, next)
  PROVE  unlock' \subseteq Clients /\ getter' \in [Getters -> Getter]
  BY DEF Settle, TypeOK

LEMMA AgainType ==
  ASSUME TypeOK, NEW c, NEW g \in Waiters(c)
  PROVE  Again[g] \in Getter /\ GiveUp[g] \in Getter
  <1>1. g \in Getters /\ getter[g] \in Getter /\ getter[g].stage = "waiting"
    BY DEF Waiters, TypeOK
  <1>2. [getter[g] EXCEPT !.stage = "retrying"] \in Getter
    BY <1>1 DEF Getter
  <1>3. QED
    BY <1>1, <1>2, IdleType DEF Again, GiveUp

LEMMA NotifyType ==
  ASSUME TypeOK, NotifyUnlocked \/ NotifyLocked
  PROVE  /\ unlock' \subseteq Clients
         /\ getter' \in [Getters -> Getter]
         /\ current' \in Clients \cup {None}
  BY SettleType, AgainType DEF NotifyUnlocked, NotifyLocked, TypeOK

-------------------------------------------------------------------------------
(* Types of the steps *)

LEMMA StoreStepType ==
  ASSUME TypeOK,
         \/ \E s \in Sockets : Handle(s) \/ TabUses(s)
         \/ TimePasses \/ Expire \/ Forget
  PROVE  TypeOK'
  <1>1. ASSUME NEW s \in Sockets, Handle(s)
        PROVE  TypeOK'
    BY <1>1, HandleType DEF Handle, agentVars, TypeOK
  <1>2. ASSUME NEW s \in Sockets, TabUses(s)
        PROVE  TypeOK'
    BY <1>2, UseType DEF TabUses, userVars, agentVars, TypeOK
  <1>3. CASE TimePasses \/ Expire \/ Forget
    BY <1>3 DEF TimePasses, Expire, Forget, ClearSession, userVars, agentVars, TypeOK
  <1>4. QED
    BY <1>1, <1>2, <1>3

LEMMA TabStepType ==
  ASSUME TypeOK, NEW t \in Tabs,
         Unlock(t) \/ UnlockFails(t) \/ Lock(t) \/ Refresh(t)
  PROVE  TypeOK'
  <1>1. CASE Unlock(t)
    <2>1. PICK s \in Sockets :
            /\ sock' = [sock EXCEPT ![s] = [Unused EXCEPT !.state = "opening", !.tab = t]]
            /\ tab' = [tab EXCEPT ![t].unlocking = s]
      BY <1>1 DEF Unlock
    <2>2. [Unused EXCEPT !.state = "opening", !.tab = t] \in Socket
      BY UnusedType DEF Socket
    <2>3. sock' \in [Sockets -> Socket]
      BY <2>1, <2>2 DEF TypeOK
    <2>4. tab' \in [Tabs -> Tab]
      BY <2>1 DEF TypeOK, Tab
    <2>5. QED
      BY <1>1, <2>3, <2>4 DEF Unlock, storeVars, agentVars, TypeOK
  <1>2. CASE UnlockFails(t)
    BY <1>2 DEF UnlockFails, storeVars, agentVars, TypeOK, Tab
  <1>3. CASE Lock(t)
    <2> DEFINE s == tab[t].ws
               told == [sock[s] EXCEPT !.inbox = Append(@, "lock")]
    <2>1. tab[t] \in Tab
      BY DEF TypeOK
    <2>2. tab' \in [Tabs -> Tab] /\ chat' \in [Tabs -> Seq({"vault_unlocked", "vault_locked"})]
      BY <1>3, <2>1, ShowType DEF Lock, Tab
    <2>3. ASSUME s # None
          PROVE  Ended(told) \in Socket
      <3>1. sock[s] \in Socket
        BY <2>1, <2>3 DEF TypeOK, Tab
      <3>2. Append(sock[s].inbox, "lock") \in Seq({"init", "lock", "close"})
        BY <3>1 DEF Socket
      <3>3. told \in Socket
        BY <3>1, <3>2 DEF Socket
      <3>4. QED
        BY <3>3, EndedType
    <2>4. sock' \in [Sockets -> Socket]
      BY <1>3, <2>3 DEF Lock, TypeOK
    <2>5. QED
      BY <1>3, <2>2, <2>4 DEF Lock, storeVars, agentVars, TypeOK
  <1>4. CASE Refresh(t)
    <2>1. tab[t].unlocking \in Sockets \cup {None}
      BY DEF TypeOK, Tab
    <2>2. QED
      BY <1>4, <2>1, ShowType DEF Refresh, storeVars, agentVars, TypeOK
  <1>5. QED
    BY <1>1, <1>2, <1>3, <1>4

LEMMA SocketStepType ==
  ASSUME TypeOK, NEW s \in Sockets, Opens(s) \/ Ready(s) \/ SocketDrops(s)
  PROVE  TypeOK'
  <1>1. CASE Opens(s)
    <2>1. <<"init">> \in Seq({"init", "lock", "close"})
      OBVIOUS
    <2>2. sock' \in [Sockets -> Socket]
      BY <1>1, <2>1 DEF Opens, TypeOK, Socket
    <2>3. QED
      BY <1>1, <2>2 DEF Opens, storeVars, agentVars, TypeOK
  <1>2. CASE Ready(s)
    <2> DEFINE t == sock[s].tab
    <2>1. sock' \in [Sockets -> Socket]
      BY <1>2 DEF Ready, TypeOK, Socket
    <2>2. CASE t \in Tabs
      <3>1. tab[t] \in Tab
        BY <2>2 DEF TypeOK
      <3>2. /\ tab[t].status \in {"locked", "unlocked"}
            /\ tab[t].unlocking \in Sockets \cup {None}
        BY <3>1 DEF Tab
      <3>3. /\ tab' \in [Tabs -> Tab]
            /\ chat' \in [Tabs -> Seq({"vault_unlocked", "vault_locked"})]
        BY <1>2, <2>2, <3>2, ShowType DEF Ready
      <3>4. QED
        BY <1>2, <2>1, <3>3 DEF Ready, storeVars, agentVars, TypeOK
    <2>3. CASE t \notin Tabs
      <3>1. tab' \in [Tabs -> Tab] /\ chat' \in [Tabs -> Seq({"vault_unlocked", "vault_locked"})]
        BY <1>2, <2>3 DEF Ready, Show, TypeOK
      <3>2. QED
        BY <1>2, <2>1, <3>1 DEF Ready, storeVars, agentVars, TypeOK
    <2>4. QED
      BY <2>2, <2>3
  <1>3. CASE SocketDrops(s)
    <2>1. sock' \in [Sockets -> Socket]
      BY <1>3, EndedType DEF SocketDrops, TypeOK
    <2>2. \A t \in Tabs :
            [tab[t] EXCEPT !.ws = IF @ = s THEN None ELSE @,
                           !.unlocking = IF @ = s THEN None ELSE @] \in Tab
      BY DEF TypeOK, Tab
    <2>3. tab' \in [Tabs -> Tab]
      BY <1>3, <2>2 DEF SocketDrops
    <2>4. QED
      BY <1>3, <2>1, <2>3 DEF SocketDrops, storeVars, agentVars, TypeOK
  <1>4. QED
    BY <1>1, <1>2, <1>3

LEMMA ChatStepType ==
  ASSUME TypeOK,
         \/ \E t \in Tabs : TabReloads(t) \/ ChatReconnects(t) \/ ChatArrives(t)
         \/ ChatCloses
  PROVE  TypeOK'
  <1> DEFINE Words == Seq({"vault_unlocked", "vault_locked"})
  <1>1. <<"vault_unlocked">> \in Words /\ <<"vault_locked">> \in Words
    OBVIOUS
  <1> HIDE DEF Words
  <1>2. ASSUME NEW t \in Tabs, TabReloads(t)
        PROVE  TypeOK'
    <2>1. sock' \in [Sockets -> Socket]
      BY <1>2, EndedType DEF TabReloads, TypeOK
    <2>2. NewTab \in Tab
      BY DEF NewTab, Tab
    <2>3. tab' \in [Tabs -> Tab]
      BY <1>2, <2>2 DEF TabReloads, TypeOK
    <2>4. chat' \in [Tabs -> Words]
      BY <1>1, <1>2 DEF TabReloads, TypeOK, Words
    <2>5. QED
      BY <1>2, <2>1, <2>3, <2>4 DEF TabReloads, storeVars, agentVars, TypeOK, Words
  <1>3. ASSUME NEW t \in Tabs, ChatReconnects(t)
        PROVE  TypeOK'
    <2>1. chat' \in [Tabs -> Words]
      BY <1>1, <1>3 DEF ChatReconnects, TypeOK, Words
    <2>2. QED
      BY <1>3, <2>1 DEF ChatReconnects, storeVars, agentVars, TypeOK, Words
  <1>4. ASSUME NEW t \in Tabs, ChatArrives(t)
        PROVE  TypeOK'
    <2>1. Tail(chat[t]) \in Words
      BY <1>4 DEF ChatArrives, TypeOK, Words
    <2>2. chat' \in [Tabs -> Words]
      BY <1>4, <2>1 DEF ChatArrives, TypeOK, Words
    <2>3. NotifyUnlocked \/ NotifyLocked
      BY <1>4 DEF ChatArrives
    <2>4. QED
      BY <1>4, <2>2, <2>3, NotifyType DEF ChatArrives, storeVars, TypeOK, Words
  <1>5. CASE ChatCloses
    BY <1>5, NotifyType DEF ChatCloses, storeVars, TypeOK
  <1>6. QED
    BY <1>2, <1>3, <1>4, <1>5

LEMMA GetterStepType ==
  ASSUME TypeOK, NEW g \in Getters,
         Get(g) \/ StoreAnswers(g) \/ Retry(g) \/ RpcFails(g) \/ RequestUnlock(g)
  PROVE  TypeOK'
  <1>1. CASE Get(g)
    <2>1. current' \in Clients
      BY <1>1 DEF Get, TypeOK
    <2>2. [stage |-> "asking", client |-> current'] \in Getter
      BY <2>1 DEF Getter
    <2>3. getter' \in [Getters -> Getter]
      BY <1>1, <2>2 DEF Get, TypeOK
    <2>4. QED
      BY <1>1, <2>1, <2>3 DEF Get, storeVars, userVars, TypeOK
  <1>2. CASE StoreAnswers(g)
    <2>1. [getter[g] EXCEPT !.stage = "locked"] \in Getter
      BY <1>2 DEF StoreAnswers, TypeOK, Getter
    <2>2. getter' \in [Getters -> Getter]
      BY <1>2, <2>1, IdleType DEF StoreAnswers, TypeOK
    <2>3. QED
      BY <1>2, <2>2, UseType DEF StoreAnswers, userVars, TypeOK
  <1>3. CASE Retry(g)
    BY <1>3, UseType, IdleType DEF Retry, userVars, TypeOK
  <1>4. CASE RpcFails(g)
    BY <1>4, IdleType DEF RpcFails, userVars, storeVars, TypeOK
  <1>5. CASE RequestUnlock(g)
    <2>1. getter' \in [Getters -> Getter]
      BY <1>5 DEF RequestUnlock, TypeOK, Getter
    <2>2. getter[g].client \in Clients
      BY <1>5 DEF RequestUnlock, TypeOK, Getter
    <2>3. QED
      BY <1>5, <2>1, <2>2 DEF RequestUnlock, userVars, storeVars, TypeOK
  <1>6. QED
    BY <1>1, <1>2, <1>3, <1>4, <1>5

LEMMA TimeoutType ==
  ASSUME TypeOK, NEW c \in Clients, UnlockTimesOut(c)
  PROVE  TypeOK'
  BY SettleType, AgainType DEF UnlockTimesOut, storeVars, userVars, TypeOK

LEMMA TypeStep ==
  ASSUME TypeOK, [Next]_vars
  PROVE  TypeOK'
  <1>1. CASE UNCHANGED vars
    BY <1>1 DEF vars, TypeOK
  <1>2. QED
    BY <1>1, StoreStepType, TabStepType, SocketStepType, ChatStepType,
       GetterStepType, TimeoutType DEF Next

\* Type correctness.
THEOREM VaultTypeOK == Spec => []TypeOK
  <1>1. Init => TypeOK
    <2> SUFFICES ASSUME Init PROVE TypeOK
      OBVIOUS
    <2>1. <<>> \in Seq({"vault_unlocked", "vault_locked"})
      OBVIOUS
    <2>2. chat \in [Tabs -> Seq({"vault_unlocked", "vault_locked"})]
      BY <2>1 DEF Init
    <2>3. NewTab \in Tab
      BY DEF NewTab, Tab
    <2>4. QED
      BY <2>2, <2>3, UnusedType, IdleType DEF Init, TypeOK
  <1>2. QED
    BY <1>1, TypeStep, PTL DEF Spec

-------------------------------------------------------------------------------
(* Waiters and prompts *)

\* Settling the promise of a client takes exactly its waiters away.
LEMMA SettlePrompted ==
  ASSUME TypeOK, WaitersPrompted, NEW c, NEW next,
         \A g \in Getters : next[g].stage # "waiting" \/ g \notin Waiters(c),
         Settle(c, next)
  PROVE  WaitersPrompted'
  <1>1. \A g \in Getters :
          getter'[g] = IF g \in Waiters(c) THEN next[g] ELSE getter[g]
    BY DEF Settle
  <1>2. \A g \in Getters : getter'[g].stage = "waiting" <=>
          getter[g].stage = "waiting" /\ getter[g].client # c
    BY <1>1 DEF Waiters
  <1>3. \A g \in Getters : getter'[g].stage = "waiting" => getter'[g] = getter[g]
    BY <1>1, <1>2 DEF Waiters
  <1>4. unlock' = unlock \ {c}
    BY DEF Settle
  <1>5. QED
    BY <1>2, <1>3, <1>4 DEF WaitersPrompted

LEMMA NotifyPrompted ==
  ASSUME TypeOK, WaitersPrompted, NotifyUnlocked \/ NotifyLocked
  PROVE  WaitersPrompted'
  <1>1. \A g \in Getters : Again[g].stage # "waiting"
    BY DEF Again, TypeOK, Getter
  <1>2. \A g \in Getters : GiveUp[g].stage # "waiting"
    BY IdleType DEF GiveUp
  <1>3. ASSUME UNCHANGED <<unlock, getter>>
        PROVE  WaitersPrompted'
    BY <1>3 DEF WaitersPrompted
  <1>4. QED
    BY <1>1, <1>2, <1>3, SettlePrompted DEF NotifyUnlocked, NotifyLocked

\* A getter that neither waited nor waits now.
LEMMA OtherPrompted ==
  ASSUME TypeOK, WaitersPrompted, NEW g \in Getters, NEW new,
         getter[g].stage # "waiting", new.stage # "waiting",
         getter' = [getter EXCEPT ![g] = new], unlock' = unlock
  PROVE  WaitersPrompted'
  BY DEF WaitersPrompted, TypeOK

LEMMA PromptedStep ==
  ASSUME TypeOK, WaitersPrompted, [Next]_vars
  PROVE  WaitersPrompted'
  <1>1. ASSUME UNCHANGED agentVars
        PROVE  WaitersPrompted'
    BY <1>1 DEF agentVars, WaitersPrompted
  <1>2. CASE \/ \E s \in Sockets :
                  Handle(s) \/ TabUses(s) \/ Opens(s) \/ Ready(s) \/ SocketDrops(s)
             \/ TimePasses \/ Expire \/ Forget
    BY <1>1, <1>2 DEF Handle, TabUses, Opens, Ready, SocketDrops, TimePasses,
       Expire, Forget
  <1>3. CASE \E t \in Tabs : \/ Unlock(t) \/ UnlockFails(t) \/ Lock(t)
                             \/ Refresh(t) \/ TabReloads(t) \/ ChatReconnects(t)
    BY <1>1, <1>3 DEF Unlock, UnlockFails, Lock, Refresh, TabReloads, ChatReconnects
  <1>4. CASE (\E t \in Tabs : ChatArrives(t)) \/ ChatCloses
    BY <1>4, NotifyPrompted DEF ChatArrives, ChatCloses
  <1>5. ASSUME NEW g \in Getters, Get(g)
        PROVE  WaitersPrompted'
    <2> DEFINE new == [stage |-> "asking", client |-> current']
    <2>1. new.stage # "waiting" /\ getter[g].stage # "waiting"
      BY <1>5 DEF Get
    <2>2. getter' = [getter EXCEPT ![g] = new] /\ unlock' = unlock
      BY <1>5 DEF Get
    <2> HIDE DEF new
    <2>3. QED
      BY <2>1, <2>2, OtherPrompted
  <1>6. ASSUME NEW g \in Getters, StoreAnswers(g)
        PROVE  WaitersPrompted'
    <2>1. PICK new \in {Idle, [getter[g] EXCEPT !.stage = "locked"]} :
            getter' = [getter EXCEPT ![g] = new] /\ unlock' = unlock
      BY <1>6 DEF StoreAnswers, TypeOK
    <2>2. new.stage # "waiting" /\ getter[g].stage # "waiting"
      BY <1>6, IdleType DEF StoreAnswers, TypeOK, Getter
    <2>3. QED
      BY <2>1, <2>2, OtherPrompted
  <1>7. ASSUME NEW g \in Getters, Retry(g) \/ RpcFails(g)
        PROVE  WaitersPrompted'
    BY <1>7, IdleType, OtherPrompted DEF Retry, RpcFails
  <1>8. ASSUME NEW g \in Getters, RequestUnlock(g)
        PROVE  WaitersPrompted'
    <2>1. /\ getter'[g].stage = "waiting"
          /\ getter'[g].client = getter[g].client
          /\ unlock' = unlock \cup {getter[g].client}
          /\ getter[g].stage # "waiting"
      BY <1>8 DEF RequestUnlock, TypeOK, Getter
    <2>2. \A h \in Getters \ {g} : getter'[h] = getter[h]
      BY <1>8 DEF RequestUnlock, TypeOK
    <2>3. QED
      BY <2>1, <2>2 DEF WaitersPrompted
  <1>9. ASSUME NEW c \in Clients, UnlockTimesOut(c)
        PROVE  WaitersPrompted'
    BY <1>9, IdleType, SettlePrompted DEF UnlockTimesOut, GiveUp
  <1>10. CASE UNCHANGED vars
    BY <1>1, <1>10 DEF vars, agentVars
  <1>11. QED
    BY <1>2, <1>3, <1>4, <1>5, <1>6, <1>7, <1>8, <1>9, <1>10 DEF Next

\* The unlock promises that are pending are those somebody waits on.
THEOREM VaultWaitersPrompted == Spec => []WaitersPrompted
  <1>1. Init => WaitersPrompted
    BY IdleType DEF Init, WaitersPrompted
  <1>2. QED
    BY <1>1, VaultTypeOK, PromptedStep, PTL DEF Spec

-------------------------------------------------------------------------------
(* Sessions and sockets *)

\* What the store has still to hear from a socket in each of its states.
Heard(k) ==
  /\ k.state \in {"unused", "opening"} => k.inbox = <<>>
  /\ k.state = "open" => \A i \in 1..Len(k.inbox) : k.inbox[i] # "close"
  /\ k.state = "closed" => k.inbox # <<>> /\ k.inbox[Len(k.inbox)] = "close"

\* The socket of an unlocked tab is the tab's own, and open.
OwnSocket ==
  \A t \in Tabs : tab[t].ws # None =>
    sock[tab[t].ws].state = "open" /\ sock[tab[t].ws].tab = t

\* The socket of a session, in terms of states alone.
SessionSocket == session # None => sock[session].state \in {"open", "closed"}

SocketInv ==
  /\ \A s \in Sockets : Heard(sock[s])
  /\ OwnSocket
  /\ SessionSocket

LEMMA SocketInvImplies ==
  ASSUME TypeOK, SocketInv
  PROVE  SessionHasSocket
  <1> SUFFICES ASSUME session # None, sock[session].state # "open"
               PROVE  \E i \in 1..Len(sock[session].inbox) :
                        sock[session].inbox[i] = "close"
    BY DEF SessionHasSocket
  <1> DEFINE inbox == sock[session].inbox
  <1>1. session \in Sockets /\ sock[session].state = "closed"
    BY DEF TypeOK, SocketInv, SessionSocket
  <1>2. inbox # <<>> /\ inbox[Len(inbox)] = "close"
    BY <1>1 DEF SocketInv, Heard
  <1>3. inbox \in Seq({"init", "lock", "close"})
    BY <1>1 DEF TypeOK, Socket
  <1> HIDE DEF inbox
  <1>4. Len(inbox) \in 1..Len(inbox)
    BY <1>2, <1>3
  <1>5. QED
    BY <1>2, <1>4 DEF inbox

LEMMA UnusedHeard == Heard(Unused) /\ Unused.state = "unused"
  BY DEF Heard, Unused

\* The end of a queue is still its end when the first message is gone.
LEMMA LastOfTail ==
  ASSUME NEW S, NEW q \in Seq(S), q # <<>>, Len(q) # 1
  PROVE  Tail(q) # <<>> /\ Tail(q)[Len(Tail(q))] = q[Len(q)]
  <1> DEFINE n == Len(q)
  <1>0. n \in Nat \ {0} /\ n # 1
    BY EmptySeq, Zenon
  <1> HIDE DEF n
  <1>1. n \in Nat /\ n > 1
    BY <1>0
  <1> USE DEF n
  <1>2. Len(Tail(q)) = Len(q) - 1
    BY <1>1
  <1>3. \A i \in 1..(Len(q) - 1) : Tail(q)[i] = q[i + 1]
    BY <1>1
  <1>4. Tail(q)[Len(q) - 1] = q[Len(q)]
    <2>1. Len(q) - 1 \in 1..(Len(q) - 1) /\ (Len(q) - 1) + 1 = Len(q)
      BY <1>1
    <2>2. QED
      BY <1>3, <2>1
  <1>5. Tail(q) # <<>>
    BY <1>1, <1>2
  <1>6. QED
    BY <1>2, <1>4, <1>5

\* Reading the first message of a socket that says more, or is not closed.
LEMMA TailHeard ==
  ASSUME NEW k \in Socket, NEW l \in Socket, Heard(k), k.inbox # <<>>,
         Head(k.inbox) # "close", l.state = k.state, l.inbox = Tail(k.inbox)
  PROVE  Heard(l) /\ l.state \in {"open", "closed"}
  <1>1. k.inbox \in Seq({"init", "lock", "close"})
    BY DEF Socket
  <1>2. CASE k.state = "open"
    <2>1. \A i \in 1..Len(l.inbox) : l.inbox[i] = k.inbox[i + 1] /\ i + 1 \in 1..Len(k.inbox)
      BY <1>1
    <2>2. QED
      BY <1>2, <2>1 DEF Heard
  <1>3. CASE k.state = "closed"
    <2>1. k.inbox[Len(k.inbox)] = "close"
      BY <1>3 DEF Heard
    <2>2. Len(k.inbox) # 1
      BY <1>1, <2>1
    <2>3. l.inbox # <<>> /\ l.inbox[Len(l.inbox)] = k.inbox[Len(k.inbox)]
      BY <1>1, <2>2, LastOfTail
    <2>4. QED
      BY <1>3, <2>1, <2>3 DEF Heard
  <1>4. QED
    BY <1>2, <1>3 DEF Heard, Socket

LEMMA EndedHeard ==
  ASSUME NEW k \in Socket
  PROVE  /\ Heard(Ended(k))
         /\ Ended(k).state = IF k.state = "open" THEN "closed" ELSE "unused"
  <1>1. CASE k.state = "open"
    <2> DEFINE inbox == Append(k.inbox, "close")
    <2>1. k.inbox \in Seq({"init", "lock", "close"})
      BY DEF Socket
    <2>2. inbox # <<>> /\ inbox[Len(inbox)] = "close"
      BY <2>1
    <2>3. Ended(k).inbox = inbox /\ Ended(k).state = "closed"
      BY <1>1 DEF Ended, Socket
    <2> HIDE DEF inbox
    <2>4. QED
      BY <1>1, <2>2, <2>3 DEF Heard
  <1>2. CASE k.state # "open"
    BY <1>2, UnusedHeard DEF Ended
  <1>3. QED
    BY <1>1, <1>2

LEMMA HandleSockets ==
  ASSUME TypeOK, SocketInv, NEW s \in Sockets, Handle(s)
  PROVE  SocketInv'
  <1> DEFINE rest == [sock[s] EXCEPT !.inbox = Tail(@)]
             told == [rest EXCEPT !.ready = (rest.state = "open")]
  <1>1. sock[s] \in Socket /\ sock[s].inbox # <<>> /\ tab' = tab
    BY DEF TypeOK, Handle
  <1>2. sock'[s] \in Socket /\ \A r \in Sockets \ {s} : sock'[r] = sock[r]
    BY HandleType DEF Handle, TypeOK
  <1>3. \A t \in Tabs : tab[t].ws # None => tab[t].ws \in Sockets
    BY DEF TypeOK, Tab
  <1>4. CASE Head(sock[s].inbox) = "close"
    <2>1. sock[s].state # "open"
      <3> DEFINE q == sock[s].inbox
      <3>1. q \in Seq({"init", "lock", "close"}) /\ q # <<>>
        BY <1>1 DEF Socket
      <3>2. Len(q) \in Nat \ {0}
        BY <3>1, EmptySeq, Zenon
      <3>3. q[1] = "close"
        BY <1>4, <3>1
      <3> HIDE DEF q
      <3>4. 1 \in 1..Len(q)
        BY <3>2
      <3>5. QED
        BY <3>3, <3>4 DEF SocketInv, Heard, q
    <2>2. sock'[s] = Unused /\ session' = None
      BY <1>4 DEF Handle, ClearSession, TypeOK
    <2>3. \A r \in Sockets : Heard(sock'[r])
      BY <1>2, <2>2, UnusedHeard DEF SocketInv
    <2>4. OwnSocket'
      BY <1>1, <1>2, <1>3, <2>1 DEF SocketInv, OwnSocket
    <2>5. QED
      BY <2>2, <2>3, <2>4 DEF SocketInv, SessionSocket
  <1>5. CASE Head(sock[s].inbox) # "close"
    <2>1. sock'[s] \in {rest, told} /\ session' \in {s, None}
      BY <1>5 DEF Handle, ClearSession, TypeOK
    <2>2. /\ sock'[s].state = sock[s].state
          /\ sock'[s].inbox = Tail(sock[s].inbox)
          /\ sock'[s].tab = sock[s].tab
      BY <1>1, <2>1 DEF Socket
    <2>3. Heard(sock[s])
      BY DEF SocketInv
    <2>4. Heard(sock'[s]) /\ sock'[s].state \in {"open", "closed"}
      BY <1>1, <1>2, <1>5, <2>2, <2>3, TailHeard
    <2>5. \A r \in Sockets : Heard(sock'[r])
      BY <1>2, <2>4 DEF SocketInv
    <2>6. OwnSocket'
      BY <1>1, <1>2, <1>3, <2>2 DEF SocketInv, OwnSocket
    <2>7. SessionSocket'
      BY <2>1, <2>4 DEF SessionSocket
    <2>8. QED
      BY <2>5, <2>6, <2>7 DEF SocketInv
  <1>6. QED
    BY <1>4, <1>5

LEMMA UnlockSockets ==
  ASSUME TypeOK, SocketInv, NEW t \in Tabs, Unlock(t)
  PROVE  SocketInv'
  <1> DEFINE new == [Unused EXCEPT !.state = "opening", !.tab = t]
  <1>1. PICK s \in Sockets : /\ sock[s].state = "unused"
                             /\ sock' = [sock EXCEPT ![s] = new]
                             /\ tab' = [tab EXCEPT ![t].unlocking = s]
    BY DEF Unlock
  <1>2. Heard(new)
    BY DEF Unused, Heard
  <1> HIDE DEF new
  <1>3. \A r \in Sockets : Heard(sock'[r])
    BY <1>1, <1>2 DEF SocketInv, TypeOK
  <1>4. \A u \in Tabs : tab'[u].ws = tab[u].ws
    BY <1>1 DEF TypeOK, Tab
  <1>5. \A u \in Tabs : tab[u].ws # None => tab[u].ws \in Sockets
    BY DEF TypeOK, Tab
  <1>6. OwnSocket'
    BY <1>1, <1>4, <1>5 DEF SocketInv, OwnSocket, TypeOK
  <1>7. SessionSocket'
    BY <1>1 DEF SocketInv, SessionSocket, TypeOK, Unlock, storeVars
  <1>8. QED
    BY <1>3, <1>6, <1>7 DEF SocketInv

LEMMA OpensSockets ==
  ASSUME TypeOK, SocketInv, NEW s \in Sockets, Opens(s)
  PROVE  SocketInv'
  <1>1. /\ sock[s].state = "opening"
        /\ sock'[s].state = "open" /\ sock'[s].inbox = <<"init">>
        /\ sock'[s].tab = sock[s].tab
        /\ \A r \in Sockets \ {s} : sock'[r] = sock[r]
        /\ tab' = tab
    BY DEF Opens, TypeOK, Socket
  <1>2. Heard(sock'[s])
    <2>1. \A i \in 1..Len(<<"init">>) : <<"init">>[i] # "close"
      OBVIOUS
    <2>2. QED
      BY <1>1, <2>1 DEF Heard
  <1>3. \A r \in Sockets : Heard(sock'[r])
    BY <1>1, <1>2 DEF SocketInv
  <1>4. \A u \in Tabs : tab[u].ws # None => tab[u].ws \in Sockets
    BY DEF TypeOK, Tab
  <1>5. OwnSocket'
    BY <1>1, <1>4 DEF SocketInv, OwnSocket
  <1>6. SessionSocket'
    BY <1>1 DEF SocketInv, SessionSocket, TypeOK, Opens, storeVars
  <1>7. QED
    BY <1>3, <1>5, <1>6 DEF SocketInv

LEMMA ReadySockets ==
  ASSUME TypeOK, SocketInv, NEW s \in Sockets, Ready(s)
  PROVE  SocketInv'
  <1> DEFINE t == sock[s].tab
  <1>1. \A r \in Sockets : /\ sock'[r].state = sock[r].state
                           /\ sock'[r].inbox = sock[r].inbox
                           /\ sock'[r].tab = sock[r].tab
    BY DEF Ready, TypeOK, Socket
  <1>2. \A r \in Sockets : Heard(sock'[r])
    BY <1>1 DEF SocketInv, Heard
  <1>3. \A u \in Tabs : tab[u].ws # None => tab[u].ws \in Sockets
    BY DEF TypeOK, Tab
  <1>4. \A u \in Tabs : tab'[u].ws = IF u = t THEN s ELSE tab[u].ws
    BY DEF Ready, Show, TypeOK
  <1>5. OwnSocket'
    BY <1>1, <1>3, <1>4 DEF SocketInv, OwnSocket, Ready
  <1>6. SessionSocket'
    BY <1>1 DEF SocketInv, SessionSocket, TypeOK, Ready, storeVars
  <1>7. QED
    BY <1>2, <1>5, <1>6 DEF SocketInv

\* Sockets that end, none of them any longer that of a tab.
LEMMA EndSockets ==
  ASSUME TypeOK, SocketInv, NEW S \in SUBSET Sockets, session' = session,
         \A s \in Sockets \ S : sock'[s] = sock[s],
         \A s \in S : /\ Heard(sock'[s])
                      /\ sock[s].state = "open" => sock'[s].state = "closed"
                      /\ sock[s].state = "closed" => sock'[s].state = "closed",
         \A t \in Tabs : \/ tab'[t].ws = None
                         \/ tab'[t].ws = tab[t].ws /\ tab[t].ws \notin S
  PROVE  SocketInv'
  <1>1. \A s \in Sockets : Heard(sock'[s])
    BY DEF SocketInv
  <1>2. \A t \in Tabs : tab[t].ws # None => tab[t].ws \in Sockets
    BY DEF TypeOK, Tab
  <1>3. OwnSocket'
    BY <1>2 DEF SocketInv, OwnSocket
  <1>4. SessionSocket'
    BY DEF SocketInv, SessionSocket, TypeOK
  <1>5. QED
    BY <1>1, <1>3, <1>4 DEF SocketInv

\* Steps of the store's session, of a tab's display and of the agent.
LEMMA OtherSockets ==
  ASSUME TypeOK, SocketInv, sock' = sock, session' \in {session, None},
         \A t \in Tabs : tab'[t].ws \in {tab[t].ws, None}
  PROVE  SocketInv'
  <1>1. \A t \in Tabs : tab[t].ws # None => tab[t].ws \in Sockets
    BY DEF TypeOK, Tab
  <1>2. OwnSocket'
    BY <1>1 DEF SocketInv, OwnSocket
  <1>3. QED
    BY <1>2 DEF SocketInv, SessionSocket

LEMMA LockSockets ==
  ASSUME TypeOK, SocketInv, NEW t \in Tabs, Lock(t)
  PROVE  SocketInv'
  <1> DEFINE s == tab[t].ws
             told == [sock[s] EXCEPT !.inbox = Append(@, "lock")]
  <1>1. /\ tab'[t].ws = None
        /\ \A u \in Tabs \ {t} : tab'[u].ws = tab[u].ws
    BY DEF Lock, Show, TypeOK
  <1>2. session' = session
    BY DEF Lock, storeVars
  <1>3. CASE s = None
    <2>1. sock' = sock
      BY <1>3 DEF Lock
    <2>2. \A u \in Tabs : tab'[u].ws = None \/ tab'[u].ws = tab[u].ws
      BY <1>1
    <2>3. QED
      BY <1>2, <2>1, <2>2, OtherSockets
  <1>4. CASE s # None
    <2>1. s \in Sockets /\ sock[s] \in Socket
      BY <1>4 DEF TypeOK, Tab
    <2>2. sock[s].state = "open" /\ sock[s].tab = t
      BY <1>4 DEF SocketInv, OwnSocket
    <2>3. Append(sock[s].inbox, "lock") \in Seq({"init", "lock", "close"})
      BY <2>1 DEF Socket
    <2>4. told \in Socket /\ told.state = "open"
      BY <2>1, <2>2, <2>3 DEF Socket
    <2>5. sock' = [sock EXCEPT ![s] = Ended(told)]
      BY <1>4 DEF Lock
    <2> HIDE DEF told
    <2>6. Heard(Ended(told)) /\ Ended(told).state = "closed"
      BY <2>4, EndedHeard
    <2>7. /\ Heard(sock'[s]) /\ sock'[s].state = "closed"
          /\ \A r \in Sockets \ {s} : sock'[r] = sock[r]
      BY <2>1, <2>5, <2>6 DEF TypeOK
    <2>8. \A u \in Tabs \ {t} : tab[u].ws # s
      BY <1>4, <2>2 DEF SocketInv, OwnSocket
    <2>9. \A u \in Tabs : \/ tab'[u].ws = None
                          \/ tab'[u].ws = tab[u].ws /\ tab[u].ws \notin {s}
      BY <1>1, <2>8
    <2> HIDE DEF s
    <2>10. QED
      BY <1>2, <2>1, <2>7, <2>9, EndSockets
  <1>5. QED
    BY <1>3, <1>4

LEMMA DropSockets ==
  ASSUME TypeOK, SocketInv, NEW s \in Sockets, SocketDrops(s)
  PROVE  SocketInv'
  <1>1. sock'[s] = Ended(sock[s]) /\ \A r \in Sockets \ {s} : sock'[r] = sock[r]
    BY DEF SocketDrops, TypeOK
  <1>2. /\ Heard(sock'[s])
        /\ sock[s].state = "open" => sock'[s].state = "closed"
        /\ sock[s].state # "closed"
    BY <1>1, EndedHeard DEF SocketDrops, TypeOK
  <1>3. \A t \in Tabs : \/ tab'[t].ws = None
                        \/ tab'[t].ws = tab[t].ws /\ tab[t].ws \notin {s}
    BY DEF SocketDrops, TypeOK, Tab
  <1>4. session' = session
    BY DEF SocketDrops, storeVars
  <1>5. QED
    BY <1>1, <1>2, <1>3, <1>4, EndSockets

LEMMA ReloadSockets ==
  ASSUME TypeOK, SocketInv, NEW t \in Tabs, TabReloads(t)
  PROVE  SocketInv'
  <1> DEFINE S == {s \in Sockets : sock[s].tab = t /\ sock[s].state \in {"opening", "open"}}
  <1>1. /\ \A s \in S : sock'[s] = Ended(sock[s])
        /\ \A s \in Sockets \ S : sock'[s] = sock[s]
    BY DEF TabReloads
  <1>2. \A s \in S : /\ Heard(sock'[s])
                     /\ sock[s].state = "open" => sock'[s].state = "closed"
                     /\ sock[s].state # "closed"
    BY <1>1, EndedHeard DEF TypeOK
  <1>3. \A u \in Tabs \ {t} : tab[u].ws # None => sock[tab[u].ws].tab = u
    BY DEF SocketInv, OwnSocket
  <1>4. tab'[t].ws = None /\ \A u \in Tabs \ {t} : tab'[u].ws = tab[u].ws
    BY DEF TabReloads, NewTab, TypeOK
  <1>5. \A u \in Tabs : \/ tab'[u].ws = None
                        \/ tab'[u].ws = tab[u].ws /\ tab[u].ws \notin S
    BY <1>3, <1>4
  <1>6. session' = session
    BY DEF TabReloads, storeVars
  <1>7. S \in SUBSET Sockets
    OBVIOUS
  <1> HIDE DEF S
  <1>8. QED
    BY <1>1, <1>2, <1>5, <1>6, <1>7, EndSockets

LEMMA SocketStep ==
  ASSUME TypeOK, SocketInv, [Next]_vars
  PROVE  SocketInv'
  <1>1. ASSUME sock' = sock, tab' = tab, session' \in {session, None}
        PROVE  SocketInv'
    BY <1>1, OtherSockets
  <1>2. ASSUME Use \/ ClearSession
        PROVE  session' \in {session, None}
    BY <1>2 DEF Use, ClearSession
  <1>3. ASSUME NEW s \in Sockets, TabUses(s)
        PROVE  SocketInv'
    BY <1>1, <1>2, <1>3 DEF TabUses, userVars
  <1>4. CASE TimePasses \/ Expire \/ Forget
    BY <1>1, <1>2, <1>4 DEF TimePasses, Expire, Forget, userVars
  <1>5. ASSUME NEW t \in Tabs, UnlockFails(t) \/ Refresh(t)
        PROVE  SocketInv'
    <2>1. CASE UnlockFails(t)
      BY <2>1, OtherSockets DEF UnlockFails, storeVars, TypeOK, Tab
    <2>2. CASE Refresh(t)
      <3>1. \A u \in Tabs : tab'[u].ws \in {tab[u].ws, None}
        BY <2>2 DEF Refresh, Show, TypeOK
      <3>2. QED
        BY <2>2, <3>1, OtherSockets DEF Refresh, storeVars
    <2>3. QED
      BY <1>5, <2>1, <2>2
  <1>6. CASE \/ \E t \in Tabs : ChatReconnects(t) \/ ChatArrives(t)
             \/ ChatCloses
    BY <1>1, <1>6 DEF ChatReconnects, ChatArrives, ChatCloses, storeVars
  <1>7. ASSUME NEW g \in Getters,
               \/ Get(g) \/ StoreAnswers(g) \/ Retry(g) \/ RpcFails(g)
               \/ RequestUnlock(g)
        PROVE  SocketInv'
    BY <1>1, <1>2, <1>7 DEF Get, StoreAnswers, Retry, RpcFails, RequestUnlock,
       storeVars, userVars
  <1>8. ASSUME NEW c \in Clients, UnlockTimesOut(c)
        PROVE  SocketInv'
    BY <1>1, <1>8 DEF UnlockTimesOut, storeVars, userVars
  <1>9. CASE UNCHANGED vars
    BY <1>1, <1>9 DEF vars
  <1>10. QED
    BY <1>3, <1>4, <1>5, <1>6, <1>7, <1>8, <1>9, HandleSockets, UnlockSockets,
       OpensSockets, ReadySockets, LockSockets, DropSockets, ReloadSockets DEF Next

\* No session outlives the socket that opened it by more than the store has
\* still to hear.
THEOREM VaultSessionHasSocket == Spec => []SessionHasSocket
  <1>1. Init => SocketInv
    BY UnusedHeard DEF Init, NewTab, SocketInv, OwnSocket, SessionSocket
  <1>2. TypeOK /\ SocketInv => SessionHasSocket
    BY SocketInvImplies
  <1>3. QED
    BY <1>1, <1>2, VaultTypeOK, SocketStep, PTL DEF Spec

-------------------------------------------------------------------------------
(* Every call for a secret returns *)

\* A call of getDecryptedSecret is at one of these three: with an RPC under way
\* or its answer to look at, waiting for the user, or over.
Active(g) == getter[g].stage \in {"asking", "locked", "retrying"}

Waiting(g) == getter[g].stage = "waiting"

Returned(g) == getter[g].stage = "idle"

\* Weak fairness of what FairSpec says of the RPCs of call g: they are under
\* way again and again no more, or are answered again and again.  In this form,
\* with the states in which the action can happen written out, it needs no
\* ENABLED.
Answered(g) == StoreAnswers(g) \/ Retry(g) \/ RequestUnlock(g)

CallGoesOn(g) == []<>~Active(g) \/ []<><<Answered(g)>>_vars

\* The same of the timer of the promise that call g waits on.
TimerEnds(g) == UnlockTimesOut(getter[g].client)

TimerFires(g) ==
  []<>~(getter[g].client \in unlock) \/ []<><<TimerEnds(g)>>_vars

\* What a call asked first, and what it asks after an unlock.
Asking(g) == getter[g].stage = "asking"

Locked(g) == getter[g].stage = "locked"

Retrying(g) == getter[g].stage = "retrying"

\* What settling a promise does to a call.
LEMMA SettleStep ==
  ASSUME TypeOK, NEW g \in Getters, NEW c, NotifyUnlocked \/ NotifyLocked
                                          \/ (UnlockTimesOut(c))
  PROVE  \/ getter'[g] = getter[g]
         \/ Waiting(g) /\ (Retrying(g)' \/ Returned(g)')
  BY IdleType DEF NotifyUnlocked, NotifyLocked, UnlockTimesOut, Settle, Waiters, Again,
     GiveUp, TypeOK, Getter, Waiting, Retrying, Returned

\* Where a step takes a call.
LEMMA CallStep ==
  ASSUME TypeOK, NEW g \in Getters, ~Returned(g), [Next]_vars
  PROVE  \/ getter'[g] = getter[g]
         \/ Returned(g)'
         \/ Asking(g) /\ Locked(g)'
         \/ Locked(g) /\ Waiting(g)'
         \/ Waiting(g) /\ Retrying(g)'
  <1>1. CASE getter' = getter
    BY <1>1
  <1>2. CASE \E s \in Sockets :
               Handle(s) \/ TabUses(s) \/ Opens(s) \/ Ready(s) \/ SocketDrops(s)
    BY <1>1, <1>2 DEF Handle, TabUses, Opens, Ready, SocketDrops, agentVars
  <1>3. CASE TimePasses \/ Expire \/ Forget
    BY <1>1, <1>3 DEF TimePasses, Expire, Forget, agentVars
  <1>4. CASE \E t \in Tabs : \/ Unlock(t) \/ UnlockFails(t) \/ Lock(t)
                             \/ Refresh(t) \/ TabReloads(t) \/ ChatReconnects(t)
    BY <1>1, <1>4 DEF Unlock, UnlockFails, Lock, Refresh, TabReloads, ChatReconnects,
       agentVars
  <1>5. CASE (\E t \in Tabs : ChatArrives(t)) \/ ChatCloses
    BY <1>5, SettleStep DEF ChatArrives, ChatCloses
  <1>6. ASSUME NEW h \in Getters,
               Get(h) \/ StoreAnswers(h) \/ Retry(h) \/ RpcFails(h) \/ RequestUnlock(h)
        PROVE  \/ getter'[g] = getter[g]
               \/ Returned(g)'
               \/ Asking(g) /\ Locked(g)'
               \/ Locked(g) /\ Waiting(g)'
    <2>1. CASE h # g
      BY <1>6, <2>1 DEF Get, StoreAnswers, Retry, RpcFails, RequestUnlock, TypeOK
    <2>2. CASE h = g /\ Get(h)
      BY <2>2 DEF Get, Returned
    <2>3. CASE h = g /\ StoreAnswers(h)
      BY <2>3, IdleType DEF StoreAnswers, TypeOK, Getter, Returned, Asking, Locked
    <2>4. CASE h = g /\ (Retry(h) \/ RpcFails(h))
      BY <2>4, IdleType DEF Retry, RpcFails, TypeOK, Returned
    <2>5. CASE h = g /\ RequestUnlock(h)
      BY <2>5 DEF RequestUnlock, TypeOK, Getter, Waiting, Locked
    <2>6. QED
      BY <1>6, <2>1, <2>2, <2>3, <2>4, <2>5
  <1>7. CASE \E c \in Clients : UnlockTimesOut(c)
    BY <1>7, SettleStep
  <1>8. CASE UNCHANGED vars
    BY <1>1, <1>8 DEF vars
  <1>9. QED
    BY <1>2, <1>3, <1>4, <1>5, <1>6, <1>7, <1>8 DEF Next

\* What the answer to a call, and the timer it waits on, do to it.
LEMMA AnswerStep ==
  ASSUME TypeOK, WaitersPrompted, NEW g \in Getters
  PROVE  /\ Asking(g) /\ Answered(g) => Locked(g)' \/ Returned(g)'
         /\ Locked(g) /\ Answered(g) => Waiting(g)'
         /\ Retrying(g) /\ Answered(g) => Returned(g)'
         /\ Waiting(g) => getter[g].client \in unlock
         /\ Waiting(g) /\ TimerEnds(g) => Returned(g)'
  <1>1. Asking(g) /\ Answered(g) => Locked(g)' \/ Returned(g)'
    BY IdleType DEF Answered, StoreAnswers, Retry, RequestUnlock, TypeOK, Getter, Asking,
       Locked, Returned
  <1>2. Locked(g) /\ Answered(g) => Waiting(g)'
    BY DEF Answered, StoreAnswers, Retry, RequestUnlock, TypeOK, Getter, Locked, Waiting
  <1>3. Retrying(g) /\ Answered(g) => Returned(g)'
    BY IdleType DEF Answered, StoreAnswers, Retry, RequestUnlock, TypeOK, Retrying, Returned
  <1>4. Waiting(g) => getter[g].client \in unlock
    BY DEF WaitersPrompted, Waiting
  <1>5. Waiting(g) /\ TimerEnds(g) => Returned(g)'
    BY IdleType DEF TimerEnds, UnlockTimesOut, Settle, Waiters, GiveUp, Waiting, Returned
  <1>6. QED
    BY <1>1, <1>2, <1>3, <1>4, <1>5

LEMMA CallReturns ==
  ASSUME NEW g \in Getters
  PROVE  Spec /\ CallGoesOn(g) /\ TimerFires(g) => (~Returned(g) ~> Returned(g))
  <1>1. TypeOK /\ WaitersPrompted =>
          /\ Returned(g) \/ Asking(g) \/ Locked(g) \/ Waiting(g) \/ Retrying(g)
          /\ Active(g) <=> Asking(g) \/ Locked(g) \/ Retrying(g)
          /\ Waiting(g) => getter[g].client \in unlock
    BY AnswerStep DEF TypeOK, Getter, Active, Asking, Locked, Waiting, Retrying, Returned
  <1>2. TypeOK /\ WaitersPrompted /\ [Next]_vars =>
          /\ Asking(g) => Asking(g)' \/ Locked(g)' \/ Returned(g)'
          /\ Locked(g) => Locked(g)' \/ Waiting(g)' \/ Returned(g)'
          /\ Waiting(g) => Waiting(g)' \/ Retrying(g)' \/ Returned(g)'
          /\ Retrying(g) => Retrying(g)' \/ Returned(g)'
    BY CallStep DEF Asking, Locked, Waiting, Retrying, Returned
  <1>3. TypeOK /\ WaitersPrompted =>
          /\ Asking(g) /\ <<Answered(g)>>_vars => Locked(g)' \/ Returned(g)'
          /\ Locked(g) /\ <<Answered(g)>>_vars => Waiting(g)'
          /\ Retrying(g) /\ <<Answered(g)>>_vars => Returned(g)'
          /\ Waiting(g) /\ <<TimerEnds(g)>>_vars => Returned(g)'
    BY AnswerStep
  <1>4. QED
    BY <1>1, <1>2, <1>3, VaultTypeOK, VaultWaitersPrompted, PTL
    DEF Spec, CallGoesOn, TimerFires

\* Whoever asks for a secret is answered, whatever tabs, sockets and the store
\* do: the RPCs of the call end, and the timer of a prompt that no user answers
\* fires, for whoever waits has one.
THEOREM EveryRequestReturns ==
  Spec /\ (\A g \in Getters : CallGoesOn(g) /\ TimerFires(g)) => EveryGetEnds
  <1>1. ASSUME NEW g \in Getters
        PROVE  Spec /\ CallGoesOn(g) /\ TimerFires(g) =>
                 (getter[g].stage # "idle" ~> getter[g].stage = "idle")
    <2>1. Returned(g) <=> getter[g].stage = "idle"
      BY DEF Returned
    <2>2. ~Returned(g) <=> getter[g].stage # "idle"
      BY DEF Returned
    <2>3. QED
      BY <2>1, <2>2, CallReturns, PTL
  <1>2. QED
    BY <1>1 DEF EveryGetEnds
===============================================================================
