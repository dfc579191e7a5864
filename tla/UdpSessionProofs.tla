-------------------------- MODULE UdpSessionProofs ---------------------------
(***************************************************************************)
(* Proofs for UdpSession, for any clients, workers and plans: packets of a *)
(* session are handled in the order in which they were sent, client and    *)
(* server stay in step, and a single worker handles no packet twice.       *)
(*                                                                         *)
(* The salts of session k form the chain k, sent[k][1], sent[k][2], ...:   *)
(* packet i is sent under the salt before sent[k][i] and announces         *)
(* sent[k][i].                                                             *)
(***************************************************************************)
EXTENDS UdpSession, FiniteSetTheorems, SequenceTheorems, TLAPS

\* The salt that packet i of session k is sent under.
Before(chains, k, i) == IF i = 1 THEN k ELSE chains[k][i - 1]

\* n is no packet: session keys are not.
NotSent(chains, n) ==
    \A k \in Name : \A i \in 1..Len(chains[k]) : chains[k][i] # n

\* Packets have numbers of their own.
SentOK ==
    /\ \A k \in Name : \A i \in 1..Len(sent[k]) : sent[k][i] <= fresh
    /\ \A k, l \in Name : \A i \in 1..Len(sent[k]), j \in 1..Len(sent[l]) :
          sent[k][i] = sent[l][j] => k = l /\ i = j
    /\ \A k \in Name : sent[k] # <<>> => k <= fresh /\ NotSent(sent, k)

\* A packet in transit or in the hands of a worker has its place in a session.
PacketOK(chains, last, m) ==
    /\ m.key <= last
    /\ m.type = "auth" => m.salt = m.key /\ NotSent(chains, m.key)
    /\ m.type = "data" =>
          \E i \in 1..Len(chains[m.key]) :
              m.new = chains[m.key][i] /\ m.salt = Before(chains, m.key, i)

\* A client has its own session and is at the end of its chain.
ClientOK ==
    \A c \in Client :
        /\ auth[c] <= fresh /\ NotSent(sent, auth[c])
        /\ key[c] <= fresh /\ NotSent(sent, key[c])
        /\ key[c] # None => salt[c] = Before(sent, key[c], Len(sent[key[c]]) + 1)
        /\ phase[c] = "auth" => auth[c] # None /\ sent[auth[c]] = <<>>
        /\ \A d \in Client :
              /\ auth[c] # None /\ auth[c] = auth[d] => c = d
              /\ key[c] # None /\ key[c] = key[d] => c = d
              /\ key[c] # None /\ key[c] = auth[d] => c = d

\* A salt in the store is that of a session without packets handled, or was
\* announced by a packet that has been handled.
StoreOK ==
    \A s \in Name :
        store[s] # None =>
            s = store[s] \/ (s \in handled /\ \E i \in 1..Len(sent[store[s]]) :
                                                sent[store[s]][i] = s)

\* A worker handles a packet after the one before it.
WorkOK ==
    \A w \in Worker :
        /\ work[w].at # "idle" => PacketOK(sent, fresh, work[w].m) /\ w \in plan.workers
        /\ work[w].at = "htua" => work[w].m.type = "auth"
        /\ work[w].at \in {"handle", "update"} =>
              /\ work[w].m.type = "data"
              /\ work[w].m.salt = work[w].m.key \/ work[w].m.salt \in handled
        /\ work[w].at = "update" => work[w].m.new \in handled

Base ==
    /\ TypeOK
    /\ SentOK
    /\ \A m \in net : PacketOK(sent, fresh, m)
    /\ ClientOK
    /\ StoreOK
    /\ WorkOK
    /\ \A n \in handled : n <= fresh
    /\ NoPacketOvertakes

\* An answer to the last auth() is sent after its session is in the store, where
\* it stays until the client uses it.
RegisteredAt(c) ==
    /\ phase[c] = "auth"
    /\ \/ \E m \in net : m.type = "htua" /\ m.key = auth[c]
       \/ \E w \in Worker : work[w].at = "htua" /\ work[w].m.key = auth[c]
    => store[auth[c]] = auth[c]

Registered == \A c \in Client : RegisteredAt(c)

Serial ==
    Cardinality(plan.workers) = 1 /\ "auth" \notin plan.dup /\ ~plan.fails

\* An auth packet that is not duplicated comes before everything else.
AuthFirst ==
    \A m \in net : m.type = "auth" =>
        /\ sent[m.key] = <<>>
        /\ \A c \in Client : key[c] # m.key
        /\ \A n \in net : n.type = "htua" => n.key # m.key
        /\ \A n \in net : n.type = "auth" /\ n.key = m.key => n = m
        /\ \A w \in Worker : work[w].at = "htua" => work[w].m.key # m.key

\* The packet that follows a salt in the store has not been handled, or is in the
\* hands of the worker, who is about to replace the salt.
NextUnhandled ==
    /\ \A s \in Name : store[s] # None =>
          \A i \in 1..Len(sent[store[s]]) : Before(sent, store[s], i) = s =>
              \/ sent[store[s]][i] \notin handled
              \/ \E w \in Worker : /\ work[w].at = "update"
                                   /\ work[w].m.new = sent[store[s]][i]
    /\ \A w \in Worker :
          /\ work[w].at = "handle" => work[w].m.new \notin handled
          /\ work[w].at = "update" =>
                \A i \in 1..Len(sent[work[w].m.key]) :
                    Before(sent, work[w].m.key, i) = work[w].m.new =>
                        sent[work[w].m.key][i] \notin handled

SerialParts == repeated = {} /\ AuthFirst /\ NextUnhandled

SerialOK == Serial => SerialParts

Inv == Base /\ Registered /\ InStep /\ SerialOK

-----------------------------------------------------------------------------
(* Types.                                                                  *)

\* What the plan allows.
LEMMA PlanFacts ==
    ASSUME TypeOK
    PROVE  /\ fresh < plan.limit => fresh + 1 \in Name /\ fresh + 1 \in Name0
           /\ fresh \in Nat /\ MaxFresh \in Nat
           /\ IsFiniteSet(plan.workers)
<1>1. /\ plan.limit \in 0..MaxFresh /\ plan.workers \subseteq Worker
      /\ MaxFresh \in Nat /\ fresh \in 0..MaxFresh /\ IsFiniteSet(Worker)
    BY SessionAssumption DEF TypeOK, Plan, Name0
<1> QED  BY <1>1, FS_Subset DEF Name, Name0

\* The packets that are made are packets.
LEMMA PacketTypes ==
    /\ \A c \in Client : HelloPacket(c) \in Message /\ OllehPacket(c) \in Message
    /\ \A c \in Client, n \in Name : AuthPacket(c, n) \in Message
    /\ \A c \in Client, k \in Name, s \in Name, n \in Name :
          DataPacket(c, k, s, n) \in Message
    /\ \A m \in Message : m.client \in Client
    /\ \A m \in Message : m.type = "auth" =>
          m.key \in Name /\ m.salt \in Name /\ HtuaPacket(m) \in Message
    /\ \A m \in Message : m.type = "data" =>
          /\ m.key \in Name /\ m.salt \in Name /\ m.new \in Name
          /\ ReplyPacket(m) \in Message
    /\ \A m \in Message : m.key \in Name0
<1> USE DEF Message, Msg, None, Name, Name0
<1>1. /\ \A c \in Client : HelloPacket(c) \in Message /\ OllehPacket(c) \in Message
      /\ \A c \in Client, n \in Name : AuthPacket(c, n) \in Message
    BY DEF HelloPacket, OllehPacket, AuthPacket
<1>2. \A c \in Client, k \in Name, s \in Name, n \in Name :
          DataPacket(c, k, s, n) \in Message
    BY DEF DataPacket
<1>3. \A m \in Message : m.client \in Client
    OBVIOUS
<1>4. \A m \in Message : m.type = "auth" =>
          m.key \in Name /\ m.salt \in Name /\ HtuaPacket(m) \in Message
    BY DEF HtuaPacket
<1>5. \A m \in Message : m.type = "data" =>
          /\ m.key \in Name /\ m.salt \in Name /\ m.new \in Name
          /\ ReplyPacket(m) \in Message
    BY DEF ReplyPacket
<1>6. \A m \in Message : m.key \in Name0
    BY SessionAssumption
<1> QED  BY <1>1, <1>2, <1>3, <1>4, <1>5, <1>6

\* What a worker holds.
LEMMA WorkTypes ==
    ASSUME TypeOK, NEW w \in Worker
    PROVE  /\ work[w] = Idle => work[w].at = "idle"
           /\ work[w].at # "idle" =>
                 /\ work[w].m \in Message
                 /\ work[w].at \in {"htua", "handle", "update"}
BY DEF TypeOK, Idle

-----------------------------------------------------------------------------
(* The chains of salts.                                                    *)

LEMMA SentTypes ==
    ASSUME TypeOK, NEW k \in Name
    PROVE  /\ sent[k] \in Seq(Name) /\ Len(sent[k]) \in Nat
           /\ \A i \in 1..Len(sent[k]) : sent[k][i] \in Name
<1>1. sent[k] \in Seq(Name)
    BY DEF TypeOK
<1> QED  BY <1>1

\* Steps that send no packet of a session leave the chains alone.
LEMMA SameChains ==
    ASSUME TypeOK, TypeOK', sent' = sent, fresh <= fresh'
    PROVE  /\ SentOK => SentOK'
           /\ \A m \in Message : PacketOK(sent, fresh, m) => PacketOK(sent', fresh', m)
<1>1. fresh \in Nat /\ fresh' \in Nat /\ Name0 \subseteq Nat /\ Name \subseteq Nat
    BY SessionAssumption DEF TypeOK, Name0, Name
<1>2. ASSUME SentOK PROVE SentOK'
    <2>1. \A n \in Nat : n <= fresh => n <= fresh'
        BY <1>1
    <2>2. ASSUME NEW k \in Name, NEW i \in 1..Len(sent'[k]) PROVE sent'[k][i] <= fresh'
        <3>1. sent[k][i] \in Nat /\ sent[k][i] <= fresh
            BY <1>1, <1>2, SentTypes DEF SentOK
        <3> QED  BY <2>1, <3>1
    <2>3. \A k, l \in Name : \A i \in 1..Len(sent'[k]), j \in 1..Len(sent'[l]) :
             sent'[k][i] = sent'[l][j] => k = l /\ i = j
        BY <1>2 DEF SentOK
    <2>4. ASSUME NEW k \in Name, sent'[k] # <<>> PROVE k <= fresh' /\ NotSent(sent', k)
        <3>1. k \in Nat /\ k <= fresh /\ NotSent(sent, k)
            BY <1>1, <1>2, <2>4 DEF SentOK
        <3> QED  BY <2>1, <3>1
    <2> QED  BY <2>2, <2>3, <2>4 DEF SentOK
<1>3. ASSUME NEW m \in Message, PacketOK(sent, fresh, m)
      PROVE  PacketOK(sent', fresh', m)
    <2>1. m.key \in Nat
        BY <1>1, PacketTypes
    <2> QED  BY <1>1, <1>3, <2>1 DEF PacketOK
<1> QED  BY <1>2, <1>3

\* Before is a salt, and which packet it comes before is certain.
LEMMA BeforeFacts ==
    ASSUME TypeOK, SentOK, NEW k \in Name
    PROVE  /\ Len(sent[k]) \in Nat
           /\ \A i \in 1..(Len(sent[k]) + 1) :
                 /\ Before(sent, k, i) \in Name
                 /\ i = 1 => Before(sent, k, i) = k
                 /\ i # 1 => /\ i - 1 \in 1..Len(sent[k])
                             /\ Before(sent, k, i) = sent[k][i - 1]
<1>1. sent[k] \in Seq(Name)
    BY DEF TypeOK
<1>2. Len(sent[k]) \in Nat /\ \A i \in 1..Len(sent[k]) : sent[k][i] \in Name
    BY <1>1
<1> QED  BY <1>2 DEF Before

LEMMA BeforeIsUnique ==
    ASSUME TypeOK, SentOK, NEW k \in Name, NEW l \in Name, NotSent(sent, k), NotSent(sent, l),
           NEW i \in 1..(Len(sent[k]) + 1), NEW j \in 1..(Len(sent[l]) + 1),
           Before(sent, k, i) = Before(sent, l, j)
    PROVE  k = l /\ i = j
<1>1. /\ Len(sent[k]) \in Nat /\ Len(sent[l]) \in Nat
      /\ i = 1 => Before(sent, k, i) = k
      /\ i # 1 => i - 1 \in 1..Len(sent[k]) /\ Before(sent, k, i) = sent[k][i - 1]
      /\ j = 1 => Before(sent, l, j) = l
      /\ j # 1 => j - 1 \in 1..Len(sent[l]) /\ Before(sent, l, j) = sent[l][j - 1]
    BY BeforeFacts
<1>2. CASE i = 1 /\ j = 1
    BY <1>1, <1>2
<1>3. CASE i = 1 /\ j # 1
    BY <1>1, <1>3 DEF NotSent
<1>4. CASE i # 1 /\ j = 1
    BY <1>1, <1>4 DEF NotSent
<1>5. CASE i # 1 /\ j # 1
    <2>1. k = l /\ i - 1 = j - 1
        BY <1>1, <1>5 DEF SentOK
    <2> QED  BY <1>1, <2>1
<1> QED  BY <1>2, <1>3, <1>4, <1>5

\* The place of a data packet in its session.
LEMMA PlaceOf ==
    ASSUME TypeOK, SentOK, NEW m \in Message, m.type = "data", PacketOK(sent, fresh, m)
    PROVE  /\ m.key \in Name /\ m.salt \in Name /\ m.new \in Name
           /\ sent[m.key] # <<>> /\ NotSent(sent, m.key)
           /\ \E i \in 1..Len(sent[m.key]) :
                 /\ m.new = sent[m.key][i] /\ m.salt = Before(sent, m.key, i)
                 /\ i \in 1..(Len(sent[m.key]) + 1)
                 /\ i + 1 \in 1..(Len(sent[m.key]) + 1)
                 /\ Before(sent, m.key, i + 1) = m.new
<1>1. m.key \in Name /\ m.salt \in Name /\ m.new \in Name
    BY PacketTypes
<1>2. sent[m.key] \in Seq(Name) /\ Len(sent[m.key]) \in Nat
    BY <1>1 DEF TypeOK
<1>3. PICK i \in 1..Len(sent[m.key]) : /\ m.new = sent[m.key][i]
                                       /\ m.salt = Before(sent, m.key, i)
    BY DEF PacketOK
<1>4. sent[m.key] # <<>>
    BY <1>2, <1>3, EmptySeq
<1>5. NotSent(sent, m.key)
    BY <1>1, <1>4 DEF SentOK
<1>6. i + 1 \in 1..(Len(sent[m.key]) + 1) /\ i \in 1..(Len(sent[m.key]) + 1)
      /\ (i + 1) - 1 = i /\ i + 1 # 1
    BY <1>2
<1>7. Before(sent, m.key, i + 1) = m.new
    BY <1>3, <1>6 DEF Before
<1> QED  BY <1>1, <1>3, <1>4, <1>5, <1>6, <1>7

-----------------------------------------------------------------------------
(* The order of packets: steps that keep Base.                             *)

\* A step that touches packets that carry no salt, and ends calls.
Quiet ==
    /\ UNCHANGED <<fresh, auth, salt, key, sent, serverVars, plan>>
    /\ \A m \in net' : m \in net \/ (m.type \in {"hello", "olleh"} /\ m.key = None)
    /\ \A c \in Client : phase'[c] = "auth" => phase[c] = "auth"
    /\ TypeOK'

LEMMA QuietBase ==
    ASSUME Base, Quiet
    PROVE  Base'
<1>1. TypeOK /\ TypeOK' /\ sent' = sent /\ fresh' = fresh /\ fresh \in Nat
      /\ fresh <= fresh'
    BY PlanFacts DEF Base, Quiet
<1>2. SentOK' /\ \A m \in Message : PacketOK(sent, fresh, m) => PacketOK(sent', fresh', m)
    BY <1>1, SameChains DEF Base
<1>3. ASSUME NEW m \in net' PROVE PacketOK(sent', fresh', m)
    <2>1. CASE m \in net
        BY <1>1, <1>2, <2>1 DEF Base, TypeOK
    <2>2. CASE m.type \in {"hello", "olleh"} /\ m.key = None
        BY <1>1, <2>2 DEF PacketOK, None
    <2> QED  BY <2>1, <2>2 DEF Quiet
<1>4. ClientOK'
    BY <1>1, <1>2 DEF Base, ClientOK, Quiet
<1>5. StoreOK'
    BY <1>1 DEF Base, StoreOK, Quiet, serverVars
<1>6. WorkOK'
    <2>1. UNCHANGED <<work, handled, plan>>
        BY DEF Quiet, serverVars
    <2>2. \A w \in Worker : work[w].at # "idle" => PacketOK(sent', fresh', work[w].m)
        BY <1>1, <1>2, WorkTypes DEF Base, WorkOK
    <2> QED  BY <2>1, <2>2 DEF Base, WorkOK
<1>7. NoPacketOvertakes' /\ \A n \in handled' : n <= fresh'
    BY <1>1 DEF Base, NoPacketOvertakes, Quiet, serverVars
<1> QED  BY <1>1, <1>2, <1>3, <1>4, <1>5, <1>6, <1>7 DEF Base

\* Those steps.
LEMMA QuietActions ==
    ASSUME TypeOK,
           \/ \E m \in net : Lose(m) \/ HelloHandler(m)
           \/ \E c \in Client : Hello(c) \/ GiveUp(c)
           \/ \E c \in Client, m \in net : Olleh(c, m) \/ Recv(c, m)
    PROVE  Quiet
<1> USE DEF TypeOK
<1>1. ASSUME NEW m \in net, Lose(m) PROVE Quiet
    <2>1. gone' \subseteq Name
        <3>1. m.type = "data" => m.key \in Name
            BY PacketTypes
        <3> QED  BY <1>1, <3>1 DEF Lose
    <2> QED  BY <1>1, <2>1 DEF Lose, Quiet, clientVars, serverVars
<1>2. ASSUME NEW m \in net, HelloHandler(m) PROVE Quiet
    <2>1. OllehPacket(m.client) \in Message
        BY PacketTypes
    <2>2. OllehPacket(m.client).type = "olleh" /\ OllehPacket(m.client).key = None
        BY DEF OllehPacket, Msg
    <2> QED  BY <1>2, <2>1, <2>2 DEF HelloHandler, Without, Quiet, clientVars, serverVars
<1>3. ASSUME NEW c \in Client, Hello(c) PROVE Quiet
    <2>1. HelloPacket(c) \in Message
        BY PacketTypes
    <2>2. HelloPacket(c).type = "hello" /\ HelloPacket(c).key = None
        BY DEF HelloPacket, Msg
    <2>3. /\ phase' \in [Client -> {"idle", "hello", "auth", "recv"}]
          /\ ok' \in [Client -> BOOLEAN]
          /\ \A d \in Client : phase'[d] = "auth" => phase[d] = "auth"
        BY <1>3 DEF Hello, SendFails, SendThenWait
    <2> QED  BY <1>3, <2>1, <2>2, <2>3
             DEF Hello, SendFails, SendThenWait, Quiet, serverVars
<1>4. ASSUME NEW c \in Client, GiveUp(c) PROVE Quiet
    BY <1>4 DEF GiveUp, Quiet, serverVars
<1>5. ASSUME NEW c \in Client, NEW m \in net, Olleh(c, m) PROVE Quiet
    BY <1>5 DEF Olleh, Without, Quiet, serverVars
<1>6. ASSUME NEW c \in Client, NEW m \in net, Recv(c, m) PROVE Quiet
    <2>1. ok' \in [Client -> BOOLEAN]
        <3>1. Opens(m, key[c]) \in BOOLEAN
            BY DEF Opens
        <3> QED  BY <1>6, <3>1 DEF Recv
    <2> QED  BY <1>6, <2>1 DEF Recv, Without, Quiet, serverVars
<1> QED  BY <1>1, <1>2, <1>3, <1>4, <1>5, <1>6

\* auth(): the new name is in use nowhere.
LEMMA AuthBase ==
    ASSUME Base, NEW c \in Client, Auth(c)
    PROVE  Base'
<1>1. /\ TypeOK /\ fresh \in Nat /\ fresh' = fresh + 1 /\ fresh' \in Name
      /\ fresh' \in Name0 /\ MaxFresh \in Nat
    BY PlanFacts DEF Base, Auth
<1>2. /\ UNCHANGED <<knows, salt, key, sent, work, store, handled, repeated, gone, plan>>
      /\ auth' = [auth EXCEPT ![c] = fresh']
      /\ phase[c] = "idle"
      /\ \/ UNCHANGED <<net, phase>>
         \/ /\ net' = net \cup {AuthPacket(c, fresh')}
            /\ phase' = [phase EXCEPT ![c] = "auth"]
    BY DEF Auth, SendFails, SendThenWait, serverVars
<1>3. /\ AuthPacket(c, fresh') \in Message /\ AuthPacket(c, fresh').type = "auth"
      /\ AuthPacket(c, fresh').salt = fresh' /\ AuthPacket(c, fresh').key = fresh'
    BY <1>1, PacketTypes DEF AuthPacket, Msg
<1>4. TypeOK'
    <2>1. /\ phase' \in [Client -> {"idle", "hello", "auth", "recv"}]
          /\ ok' \in [Client -> BOOLEAN]
        BY <1>1 DEF Auth, SendFails, SendThenWait, TypeOK
    <2>2. auth' \in [Client -> Name0]
        BY <1>1, <1>2 DEF TypeOK
    <2> QED  BY <1>1, <1>2, <1>3, <2>1, <2>2 DEF TypeOK
<1>5. SentOK' /\ \A m \in Message : PacketOK(sent, fresh, m) => PacketOK(sent', fresh', m)
    BY <1>1, <1>2, <1>4, SameChains DEF Base
<1>6. NotSent(sent, fresh') /\ sent[fresh'] = <<>>
    <2>1. \A k \in Name : \A i \in 1..Len(sent[k]) : sent[k][i] <= fresh /\ sent[k][i] \in Nat
        BY <1>1, SentTypes DEF Base, SentOK, Name
    <2>2. NotSent(sent, fresh')
        BY <1>1, <2>1 DEF NotSent
    <2>3. sent[fresh'] = <<>>
        BY <1>1 DEF Base, SentOK
    <2> QED  BY <2>2, <2>3
<1>7. ASSUME NEW m \in net' PROVE PacketOK(sent', fresh', m)
    <2>1. CASE m \in net
        BY <1>1, <1>5, <2>1 DEF Base, TypeOK
    <2>2. CASE m = AuthPacket(c, fresh')
        BY <1>1, <1>2, <1>3, <1>6, <2>2 DEF PacketOK
    <2> QED  BY <1>2, <2>1, <2>2
<1>8. ClientOK'
    <2>1. \A d \in Client : /\ auth[d] \in Nat /\ auth[d] <= fresh /\ auth[d] # fresh'
                            /\ key[d] \in Nat /\ key[d] <= fresh /\ key[d] # fresh'
        BY <1>1 DEF Base, ClientOK, TypeOK, Name0
    <2>2. \A d \in Client : auth'[d] = IF d = c THEN fresh' ELSE auth[d]
        BY <1>1, <1>2 DEF TypeOK
    <2>3. \A d \in Client : phase'[d] = "auth" => phase[d] = "auth" \/ d = c
        BY <1>1, <1>2 DEF TypeOK
    <2>4. ASSUME NEW d \in Client
          PROVE  /\ auth'[d] <= fresh' /\ NotSent(sent', auth'[d])
                 /\ key'[d] <= fresh' /\ NotSent(sent', key'[d])
        <3>1. auth'[d] <= fresh' /\ key'[d] <= fresh'
            BY <1>1, <1>2, <2>1, <2>2
        <3>2. NotSent(sent', auth'[d]) /\ NotSent(sent', key'[d])
            BY <1>2, <1>5, <1>6, <2>2 DEF Base, ClientOK
        <3> QED  BY <3>1, <3>2
    <2>5. ASSUME NEW d \in Client, key'[d] # None
          PROVE  salt'[d] = Before(sent', key'[d], Len(sent'[key'[d]]) + 1)
        BY <1>2, <1>5, <2>5 DEF Base, ClientOK
    <2>6. ASSUME NEW d \in Client, phase'[d] = "auth"
          PROVE  auth'[d] # None /\ sent'[auth'[d]] = <<>>
        BY <1>1, <1>2, <1>6, <2>2, <2>3, <2>6 DEF Base, ClientOK, None
    <2>7. ASSUME NEW d \in Client, NEW e \in Client
          PROVE  /\ auth'[d] # None /\ auth'[d] = auth'[e] => d = e
                 /\ key'[d] # None /\ key'[d] = key'[e] => d = e
                 /\ key'[d] # None /\ key'[d] = auth'[e] => d = e
        BY <1>2, <2>1, <2>2 DEF Base, ClientOK
    <2> QED  BY <2>4, <2>5, <2>6, <2>7 DEF ClientOK
<1>9. StoreOK' /\ NoPacketOvertakes'
    BY <1>2 DEF Base, StoreOK, NoPacketOvertakes
<1>10. WorkOK'
    <2>1. \A w \in Worker : work[w].at # "idle" => PacketOK(sent', fresh', work[w].m)
        BY <1>1, <1>5, WorkTypes DEF Base, WorkOK
    <2> QED  BY <1>2, <2>1 DEF Base, WorkOK
<1>11. \A n \in handled' : n <= fresh'
    BY <1>1, <1>2 DEF Base, TypeOK, Name
<1> QED  BY <1>4, <1>5, <1>7, <1>8, <1>9, <1>10, <1>11 DEF Base

\* auth() succeeds: the client's session is the one it has just registered,
\* which has no packets yet.
LEMMA HtuaBase ==
    ASSUME Base, NEW c \in Client, NEW m \in net, Htua(c, m)
    PROVE  Base'
<1>1. /\ TypeOK /\ fresh \in Nat /\ phase[c] = "auth"
      /\ UNCHANGED <<fresh, knows, auth, sent, work, store, handled, repeated, gone, plan>>
      /\ phase' = [phase EXCEPT ![c] = "idle"]
      /\ net' \subseteq net
      /\ \/ UNCHANGED <<salt, key>>
         \/ /\ salt' = [salt EXCEPT ![c] = auth[c]]
            /\ key' = [key EXCEPT ![c] = auth[c]]
    BY PlanFacts DEF Base, Htua, Without, serverVars
<1>2. TypeOK'
    <2>1. ok' \in [Client -> BOOLEAN]
        <3>1. Opens(m, auth[c]) \in BOOLEAN
            BY DEF Opens
        <3> QED  BY <1>1, <3>1 DEF Htua, TypeOK
    <2>2. salt' \in [Client -> Name0] /\ key' \in [Client -> Name0]
        BY <1>1 DEF TypeOK
    <2> QED  BY <1>1, <2>1, <2>2 DEF TypeOK
<1>3. SentOK' /\ \A n \in net' : PacketOK(sent', fresh', n)
    BY <1>1 DEF Base, SentOK
<1>4. ClientOK'
    <2>1. CASE UNCHANGED <<salt, key>>
        BY <1>1, <2>1 DEF Base, ClientOK, TypeOK
    <2>2. CASE /\ salt' = [salt EXCEPT ![c] = auth[c]]
               /\ key' = [key EXCEPT ![c] = auth[c]]
        <3>1. \A d \in Client : /\ key'[d] = IF d = c THEN auth[c] ELSE key[d]
                                /\ salt'[d] = IF d = c THEN auth[c] ELSE salt[d]
                                /\ phase'[d] = IF d = c THEN "idle" ELSE phase[d]
            BY <1>1, <2>2 DEF TypeOK
        <3>2. Before(sent, auth[c], Len(sent[auth[c]]) + 1) = auth[c]
            <4>1. sent[auth[c]] = <<>>
                BY <1>1 DEF Base, ClientOK
            <4> QED  BY <4>1 DEF Before
        <3> QED  BY <1>1, <3>1, <3>2 DEF Base, ClientOK
    <2> QED  BY <1>1, <2>1, <2>2
<1>5. StoreOK' /\ NoPacketOvertakes' /\ WorkOK' /\ \A n \in handled' : n <= fresh'
    BY <1>1 DEF Base, StoreOK, NoPacketOvertakes, WorkOK
<1> QED  BY <1>2, <1>3, <1>4, <1>5 DEF Base

\* A packet is sent: one more salt at the end of a chain.
Longer(chains, k, n) == chains = [sent EXCEPT ![k] = Append(@, n)]

\* What is known of the longer chain.
ChainFacts(chains, k, n) ==
    /\ \A l \in Name : /\ Len(chains[l]) \in Nat
                       /\ l # k => chains[l] = sent[l]
    /\ Len(chains[k]) = Len(sent[k]) + 1
    /\ chains[k][Len(sent[k]) + 1] = n
    /\ \A l \in Name : \A i \in 1..Len(sent[l]) :
          i \in 1..Len(chains[l]) /\ chains[l][i] = sent[l][i]
    /\ \A l \in Name : \A i \in 1..Len(chains[l]) :
          \/ i \in 1..Len(sent[l]) /\ chains[l][i] = sent[l][i]
          \/ l = k /\ i = Len(sent[k]) + 1 /\ chains[l][i] = n
    /\ \A l \in Name : \A i \in 1..(Len(sent[l]) + 1) :
          Before(chains, l, i) = Before(sent, l, i)
    /\ Before(chains, k, Len(chains[k]) + 1) = n

LEMMA LongerChain ==
    ASSUME TypeOK, SentOK, NEW k \in Name, NEW n \in Name, n = fresh + 1,
           NEW chains, Longer(chains, k, n)
    PROVE  ChainFacts(chains, k, n)
<1>1. sent[k] \in Seq(Name) /\ Len(sent[k]) \in Nat
    BY SentTypes
<1>2. chains[k] = Append(sent[k], n)
    BY DEF TypeOK, Longer
<1>3. \A l \in Name : l # k => chains[l] = sent[l]
    BY DEF TypeOK, Longer
<1>4. /\ Len(chains[k]) = Len(sent[k]) + 1
      /\ chains[k][Len(sent[k]) + 1] = n
      /\ \A i \in 1..Len(sent[k]) : chains[k][i] = sent[k][i]
    BY <1>1, <1>2, AppendProperties
<1>5. \A l \in Name : Len(sent[l]) \in Nat /\ Len(chains[l]) \in Nat
    BY <1>1, <1>3, <1>4, SentTypes
<1>6. \A l \in Name : \A i \in 1..Len(sent[l]) :
            i \in 1..Len(chains[l]) /\ chains[l][i] = sent[l][i]
    BY <1>1, <1>3, <1>4
<1>7. \A l \in Name : \A i \in 1..Len(chains[l]) :
            \/ i \in 1..Len(sent[l]) /\ chains[l][i] = sent[l][i]
            \/ l = k /\ i = Len(sent[k]) + 1 /\ chains[l][i] = n
    BY <1>1, <1>3, <1>4
<1>8. ASSUME NEW l \in Name, NEW i \in 1..(Len(sent[l]) + 1)
      PROVE  Before(chains, l, i) = Before(sent, l, i)
    <2>1. CASE i = 1
        BY <2>1 DEF Before
    <2>2. CASE i # 1
        <3>1. i - 1 \in 1..Len(sent[l])
            BY <1>5, <2>2
        <3> QED  BY <1>6, <2>2, <3>1 DEF Before
    <2> QED  BY <2>1, <2>2
<1>9. Before(chains, k, Len(chains[k]) + 1) = n
    <2>1. Len(chains[k]) + 1 # 1 /\ (Len(chains[k]) + 1) - 1 = Len(sent[k]) + 1
        BY <1>1, <1>4
    <2> QED  BY <1>4, <2>1 DEF Before
<1> QED  BY <1>3, <1>4, <1>5, <1>6, <1>7, <1>8, <1>9 DEF ChainFacts

\* NotSent and PacketOK survive a longer chain.
LEMMA LongerChainKeeps ==
    ASSUME TypeOK, SentOK, NEW k \in Name, NEW n \in Name, n = fresh + 1,
           k <= fresh, NotSent(sent, k),
           NEW chains, Longer(chains, k, n)
    PROVE  /\ \A p \in Nat : p <= fresh /\ NotSent(sent, p) => NotSent(chains, p)
           /\ \A m \in Message : PacketOK(sent, fresh, m) => PacketOK(chains, n, m)
<1>1. fresh \in Nat /\ Name0 \subseteq Nat
    BY SessionAssumption DEF TypeOK, Name0
<1> ChainFacts(chains, k, n)
    BY LongerChain
<1>2. ASSUME NEW p \in Nat, p <= fresh, NotSent(sent, p)
      PROVE  NotSent(chains, p)
    <2>1. p # n
        BY <1>1, <1>2
    <2>2. \A l \in Name : \A i \in 1..Len(chains[l]) :
            \/ i \in 1..Len(sent[l]) /\ chains[l][i] = sent[l][i]
            \/ chains[l][i] = n
        BY DEF ChainFacts
    <2> QED  BY <1>2, <2>1, <2>2 DEF NotSent
<1>3. ASSUME NEW m \in Message, PacketOK(sent, fresh, m)
      PROVE  PacketOK(chains, n, m)
    <2>1. m.key \in Nat /\ m.key <= fresh
        BY <1>1, <1>3, PacketTypes DEF PacketOK
    <2>2. m.key <= n
        BY <1>1, <2>1
    <2>3. m.type = "auth" => m.salt = m.key /\ NotSent(chains, m.key)
        BY <1>2, <1>3, <2>1 DEF PacketOK
    <2>4. ASSUME m.type = "data"
          PROVE  \E i \in 1..Len(chains[m.key]) :
                    m.new = chains[m.key][i] /\ m.salt = Before(chains, m.key, i)
        <3>1. PICK i \in 1..Len(sent[m.key]) :
                    m.new = sent[m.key][i] /\ m.salt = Before(sent, m.key, i)
            BY <1>3, <2>4 DEF PacketOK
        <3>2. m.key \in Name
            BY <2>4, PacketTypes
        <3>3. i \in 1..(Len(sent[m.key]) + 1)
            BY <3>2, SentTypes
        <3>4. i \in 1..Len(chains[m.key]) /\ chains[m.key][i] = sent[m.key][i]
            BY <3>2 DEF ChainFacts
        <3>5. Before(chains, m.key, i) = Before(sent, m.key, i)
            BY <3>2, <3>3 DEF ChainFacts
        <3> QED  BY <3>1, <3>4, <3>5
    <2> QED  BY <2>2, <2>3, <2>4 DEF PacketOK
<1> QED  BY <1>2, <1>3

LEMMA SendBase ==
    ASSUME Base, NEW c \in Client, Send(c)
    PROVE  Base'
<1> DEFINE k == key[c]
           n == fresh + 1
           m == DataPacket(c, k, salt[c], n)
<1>1. /\ TypeOK /\ SentOK /\ fresh \in Nat /\ fresh' = n /\ n \in Name /\ n \in Name0
      /\ Name \subseteq Nat /\ Name0 \subseteq Nat
    BY PlanFacts, SessionAssumption DEF Base, Send, Name, Name0
<1>2. /\ k \in Name /\ k # None /\ k <= fresh /\ NotSent(sent, k)
      /\ salt[c] = Before(sent, k, Len(sent[k]) + 1)
    BY <1>1 DEF Base, ClientOK, Send, TypeOK, Name, Name0, None
<1>3. salt[c] \in Name /\ Len(sent[k]) \in Nat
    BY <1>1, <1>2, BeforeFacts
<1>4. /\ UNCHANGED <<knows, auth, key, work, store, handled, repeated, gone, plan>>
      /\ phase[c] = "idle"
    BY DEF Send, serverVars
<1>5. CASE SendFails(c) /\ UNCHANGED <<salt, sent>>
    <2>1. UNCHANGED <<net, phase, salt, sent>>
        BY <1>5 DEF SendFails
    <2>2. TypeOK'
        <3>1. ok' \in [Client -> BOOLEAN]
            BY <1>1, <1>5 DEF SendFails, TypeOK
        <3> QED  BY <1>1, <1>4, <2>1, <3>1 DEF TypeOK
    <2>3. SentOK' /\ \A p \in Message : PacketOK(sent, fresh, p) => PacketOK(sent', fresh', p)
        BY <1>1, <2>1, <2>2, SameChains
    <2>4. \A p \in net' : PacketOK(sent', fresh', p)
        BY <1>1, <2>1, <2>3 DEF Base, TypeOK
    <2>5. ClientOK'
        <3>1. \A d \in Client : auth[d] <= fresh' /\ key[d] <= fresh'
            <4>1. \A d \in Client : auth[d] \in Nat /\ key[d] \in Nat
                BY <1>1 DEF TypeOK
            <4> QED  BY <1>1, <4>1 DEF Base, ClientOK
        <3> QED  BY <1>4, <2>1, <3>1 DEF Base, ClientOK
    <2>6. StoreOK' /\ NoPacketOvertakes'
        BY <1>4, <2>1 DEF Base, StoreOK, NoPacketOvertakes
    <2>7. WorkOK'
        <3>1. \A w \in Worker : work[w].at # "idle" => PacketOK(sent', fresh', work[w].m)
            BY <1>1, <2>3, WorkTypes DEF Base, WorkOK
        <3> QED  BY <1>4, <3>1 DEF Base, WorkOK
    <2>8. \A p \in handled' : p <= fresh'
        <3>1. \A p \in handled : p \in Nat /\ p <= fresh
            BY <1>1 DEF Base, TypeOK
        <3> QED  BY <1>1, <1>4, <3>1
    <2> QED  BY <2>2, <2>3, <2>4, <2>5, <2>6, <2>7, <2>8 DEF Base
<1>6. CASE /\ \E call \in {"recv", "idle"} : SendThenWait(c, call, m)
           /\ salt' = [salt EXCEPT ![c] = n]
           /\ sent' = [sent EXCEPT ![k] = Append(@, n)]
    <2>1. Longer(sent', k, n)
        BY <1>6 DEF Longer
    <2>2. ChainFacts(sent', k, n)
        BY <1>1, <1>2, <2>1, LongerChain
    <2>3. /\ \A p \in Nat : p <= fresh /\ NotSent(sent, p) => NotSent(sent', p)
          /\ \A p \in Message : PacketOK(sent, fresh, p) => PacketOK(sent', n, p)
        BY <1>1, <1>2, <2>1, LongerChainKeeps
    <2>4. /\ m \in Message /\ m.type = "data" /\ m.key = k /\ m.salt = salt[c]
          /\ m.new = n
        BY <1>1, <1>2, <1>3, PacketTypes DEF DataPacket, Msg
    <2>5. /\ net' = net \cup {m} /\ UNCHANGED ok
          /\ \A d \in Client : phase'[d] = "auth" => phase[d] = "auth" /\ d # c
          /\ phase' \in [Client -> {"idle", "hello", "auth", "recv"}]
        <3>1. PICK call \in {"recv", "idle"} : SendThenWait(c, call, m)
            BY <1>6
        <3> QED  BY <1>1, <3>1 DEF SendThenWait, TypeOK
    <2>6. TypeOK'
        <3>1. salt' \in [Client -> Name0]
            BY <1>1, <1>6 DEF TypeOK
        <3>2. sent' \in [Name -> Seq(Name)]
            <4>1. Append(sent[k], n) \in Seq(Name)
                BY <1>1, <1>2, SentTypes, AppendProperties
            <4> QED  BY <1>1, <1>6, <4>1 DEF TypeOK
        <3> QED  BY <1>1, <1>4, <2>4, <2>5, <3>1, <3>2 DEF TypeOK
    <2>7. SentOK'
        <3>1. ASSUME NEW l \in Name, NEW i \in 1..Len(sent'[l])
              PROVE  sent'[l][i] <= fresh'
            <4>1. \/ i \in 1..Len(sent[l]) /\ sent'[l][i] = sent[l][i]
                  \/ sent'[l][i] = n
                BY <2>2 DEF ChainFacts
            <4>2. i \in 1..Len(sent[l]) => sent[l][i] \in Nat /\ sent[l][i] <= fresh
                BY <1>1, SentTypes DEF SentOK
            <4> QED  BY <1>1, <4>1, <4>2
        <3>2. ASSUME NEW l \in Name, NEW o \in Name, NEW i \in 1..Len(sent'[l]),
                     NEW j \in 1..Len(sent'[o]), sent'[l][i] = sent'[o][j]
              PROVE  l = o /\ i = j
            <4>1. /\ \/ i \in 1..Len(sent[l]) /\ sent'[l][i] = sent[l][i]
                     \/ l = k /\ i = Len(sent[k]) + 1 /\ sent'[l][i] = n
                  /\ \/ j \in 1..Len(sent[o]) /\ sent'[o][j] = sent[o][j]
                     \/ o = k /\ j = Len(sent[k]) + 1 /\ sent'[o][j] = n
                BY <2>2 DEF ChainFacts
            <4>2. /\ i \in 1..Len(sent[l]) => sent[l][i] # n
                  /\ j \in 1..Len(sent[o]) => sent[o][j] # n
                <5>1. \A q \in Name : \A h \in 1..Len(sent[q]) :
                            sent[q][h] \in Nat /\ sent[q][h] <= fresh
                    BY <1>1, SentTypes DEF SentOK
                <5> QED  BY <1>1, <5>1
            <4> QED  BY <1>1, <3>2, <4>1, <4>2 DEF SentOK
        <3>3. ASSUME NEW l \in Name, sent'[l] # <<>>
              PROVE  l <= fresh' /\ NotSent(sent', l)
            <4>1. l <= fresh /\ NotSent(sent, l)
                BY <1>1, <1>2, <2>2, <3>3 DEF SentOK, ChainFacts
            <4> QED  BY <1>1, <2>3, <4>1
        <3> QED  BY <3>1, <3>2, <3>3 DEF SentOK
    <2>8. ASSUME NEW p \in net' PROVE PacketOK(sent', fresh', p)
        <3>1. CASE p \in net
            BY <1>1, <2>3, <3>1 DEF Base, TypeOK
        <3>2. CASE p = m
            <4>1. /\ Len(sent[k]) + 1 \in 1..Len(sent'[k])
                  /\ sent'[k][Len(sent[k]) + 1] = n
                BY <1>3, <2>2 DEF ChainFacts
            <4>2. Before(sent', k, Len(sent[k]) + 1) = salt[c]
                <5>1. Len(sent[k]) + 1 \in 1..(Len(sent[k]) + 1)
                    BY <1>3
                <5> QED  BY <1>2, <2>2, <5>1 DEF ChainFacts
            <4>3. k <= fresh'
                <5>1. k \in Nat /\ k <= fresh /\ fresh \in Nat
                    BY <1>1, <1>2
                <5>2. k <= fresh + 1
                    <6> HIDE DEF k
                    <6> QED  BY <5>1
                <5> QED  BY <1>1, <5>2
            <4> HIDE DEF k, n, m
            <4> QED  BY <2>4, <3>2, <4>1, <4>2, <4>3 DEF PacketOK
        <3> QED  BY <2>5, <3>1, <3>2
    <2>9. ClientOK'
        <3>1. \A d \in Client : /\ auth[d] \in Nat /\ auth[d] <= fresh /\ NotSent(sent, auth[d])
                                /\ key[d] \in Nat /\ key[d] <= fresh /\ NotSent(sent, key[d])
            BY <1>1 DEF Base, ClientOK, TypeOK
        <3>2. \A d \in Client : /\ auth[d] <= fresh' /\ NotSent(sent', auth[d])
                                /\ key[d] <= fresh' /\ NotSent(sent', key[d])
            BY <1>1, <2>3, <3>1
        <3>3. ASSUME NEW d \in Client, key[d] # None
              PROVE  salt'[d] = Before(sent', key[d], Len(sent'[key[d]]) + 1)
            <4>1. CASE d = c
                <5>1. salt'[c] = n
                    BY <1>1, <1>6 DEF TypeOK
                <5> QED  BY <2>2, <4>1, <5>1 DEF ChainFacts
            <4>2. CASE d # c
                <5>1. key[d] # k /\ key[d] \in Name /\ salt'[d] = salt[d]
                    BY <1>1, <1>6, <3>3, <4>2 DEF Base, ClientOK, TypeOK, Name, Name0, None
                <5>2. Len(sent[key[d]]) + 1 \in 1..(Len(sent[key[d]]) + 1)
                    BY <1>1, <5>1, SentTypes
                <5>3. sent'[key[d]] = sent[key[d]]
                    BY <2>2, <5>1 DEF ChainFacts
                <5>4. Before(sent', key[d], Len(sent[key[d]]) + 1)
                        = Before(sent, key[d], Len(sent[key[d]]) + 1)
                    BY <2>2, <5>1, <5>2 DEF ChainFacts
                <5> QED  BY <3>3, <5>1, <5>3, <5>4 DEF Base, ClientOK
            <4> QED  BY <4>1, <4>2
        <3>4. ASSUME NEW d \in Client, phase'[d] = "auth"
              PROVE  auth[d] # None /\ sent'[auth[d]] = <<>>
            <4>1. phase[d] = "auth" /\ d # c
                BY <2>5, <3>4
            <4>2. auth[d] # None /\ sent[auth[d]] = <<>> /\ auth[d] # k
                BY <1>2, <4>1 DEF Base, ClientOK
            <4>3. auth[d] \in Name
                BY <1>1, <4>2 DEF TypeOK, Name, Name0, None
            <4> QED  BY <2>2, <4>2, <4>3 DEF ChainFacts
        <3> QED  BY <1>4, <3>2, <3>3, <3>4 DEF Base, ClientOK
    <2>10. StoreOK'
        <3>1. ASSUME NEW s \in Name, store[s] # None, s # store[s]
              PROVE  s \in handled /\ \E i \in 1..Len(sent'[store[s]]) :
                                         sent'[store[s]][i] = s
            <4>1. s \in handled /\ store[s] \in Name
                  /\ \E i \in 1..Len(sent[store[s]]) : sent[store[s]][i] = s
                <5>1. store[s] \in Name
                    BY <1>1, <3>1 DEF TypeOK, Name, Name0, None
                <5> QED  BY <3>1, <5>1 DEF Base, StoreOK
            <4>2. PICK i \in 1..Len(sent[store[s]]) : sent[store[s]][i] = s
                BY <4>1
            <4>3. i \in 1..Len(sent'[store[s]]) /\ sent'[store[s]][i] = s
                BY <2>2, <4>1, <4>2 DEF ChainFacts
            <4> QED  BY <4>1, <4>3
        <3> QED  BY <1>4, <3>1 DEF StoreOK
    <2>11. WorkOK'
        <3>1. \A w \in Worker : work[w].at # "idle" => PacketOK(sent', fresh', work[w].m)
            BY <1>1, <2>3, WorkTypes DEF Base, WorkOK
        <3> QED  BY <1>4, <3>1 DEF Base, WorkOK
    <2>12. \A p \in handled : p \in Nat /\ p <= fresh
        BY <1>1 DEF Base, TypeOK
    <2>13. \A p \in handled' : p <= fresh'
        BY <1>1, <1>4, <2>12
    <2>14. NoPacketOvertakes'
        <3>1. ASSUME NEW l \in Name, NEW i \in 1..Len(sent'[l]), sent'[l][i] \in handled,
                     NEW j \in 1..i
              PROVE  sent'[l][j] \in handled
            <4>1. n \notin handled
                BY <1>1, <2>12
            <4>2. i \in 1..Len(sent[l]) /\ sent[l][i] \in handled
                BY <2>2, <3>1, <4>1 DEF ChainFacts
            <4>3. j \in 1..Len(sent[l])
                BY <1>1, <4>2, SentTypes
            <4>4. sent[l][j] \in handled
                BY <4>2 DEF Base, NoPacketOvertakes
            <4> QED  BY <2>2, <4>3, <4>4 DEF ChainFacts
        <3> QED  BY <1>4, <3>1 DEF NoPacketOvertakes
    <2> QED  BY <2>6, <2>7, <2>8, <2>9, <2>10, <2>11, <2>13, <2>14 DEF Base
<1> QED  BY <1>1, <1>5, <1>6 DEF Send

\* A step of a server leaves the clients and the chains alone.
LEMMA ServerBase ==
    ASSUME Base, UNCHANGED <<fresh, clientVars, plan>>, TypeOK',
           \A p \in net' : PacketOK(sent, fresh, p),
           StoreOK', WorkOK', \A n \in handled' : n <= fresh, NoPacketOvertakes'
    PROVE  Base'
<1>1. UNCHANGED <<fresh, phase, auth, salt, key, sent>>
    BY DEF clientVars
<1>2. SentOK' /\ ClientOK'
    BY <1>1 DEF Base, SentOK, ClientOK
<1>3. \A p \in net' : PacketOK(sent', fresh', p)
    BY <1>1
<1>4. \A n \in handled' : n <= fresh'
    BY <1>1
<1> QED  BY <1>2, <1>3, <1>4 DEF Base

\* Worker w goes on to r, which is nothing or fits what is known of workers.
LEMMA WorkStep ==
    ASSUME Base, UNCHANGED <<fresh, sent, plan>>, handled \subseteq handled',
           NEW w \in Worker, NEW r, work' = [work EXCEPT ![w] = r],
           \/ r = Idle
           \/ /\ r \in [at : {"htua", "handle", "update"}, m : Message]
              /\ PacketOK(sent, fresh, r.m) /\ w \in plan.workers
              /\ r.at = "htua" => r.m.type = "auth"
              /\ r.at \in {"handle", "update"} =>
                    /\ r.m.type = "data"
                    /\ r.m.salt = r.m.key \/ r.m.salt \in handled'
              /\ r.at = "update" => r.m.new \in handled'
    PROVE  /\ WorkOK'
           /\ work' \in [Worker -> {Idle} \cup [at : {"htua", "handle", "update"}, m : Message]]
           /\ \A v \in Worker : work'[v] = IF v = w THEN r ELSE work[v]
<1>1. \A v \in Worker : work'[v] = IF v = w THEN r ELSE work[v]
    BY DEF Base, TypeOK
<1>2. work' \in [Worker -> {Idle} \cup [at : {"htua", "handle", "update"}, m : Message]]
    BY DEF Base, TypeOK
<1>3. ASSUME NEW v \in Worker
      PROVE  /\ work'[v].at # "idle" => PacketOK(sent', fresh', work'[v].m) /\ v \in plan'.workers
             /\ work'[v].at = "htua" => work'[v].m.type = "auth"
             /\ work'[v].at \in {"handle", "update"} =>
                   /\ work'[v].m.type = "data"
                   /\ work'[v].m.salt = work'[v].m.key \/ work'[v].m.salt \in handled'
             /\ work'[v].at = "update" => work'[v].m.new \in handled'
    <2>1. CASE v # w
        BY <1>1, <2>1 DEF Base, WorkOK
    <2>2. CASE v = w /\ r = Idle
        BY <1>1, <2>2 DEF Idle
    <2>3. CASE v = w /\ r # Idle
        <3>1. work'[v] = r
            BY <1>1, <2>3
        <3> QED  BY <2>3, <3>1
    <2> QED  BY <2>1, <2>2, <2>3
<1>4. WorkOK'
    BY <1>3 DEF WorkOK
<1> QED  BY <1>1, <1>2, <1>4

\* An auth packet registers a session under its own key.
LEMMA AuthRegisterBase ==
    ASSUME Base, NEW w \in Worker, NEW m \in net, AuthRegister(w, m)
    PROVE  Base'
<1>1. /\ TypeOK /\ m \in Message /\ m.type = "auth" /\ m.key \in Name /\ m.salt = m.key
      /\ PacketOK(sent, fresh, m) /\ w \in plan.workers
      /\ UNCHANGED <<fresh, clientVars, sent, handled, repeated, gone, plan>>
      /\ net' \subseteq net
    BY PacketTypes DEF Base, TypeOK, AuthRegister, Without, PacketOK, clientVars
<1>2. CASE UNCHANGED <<store, work>>
    <2>1. TypeOK'
        BY <1>1, <1>2 DEF TypeOK, clientVars
    <2>2. StoreOK' /\ WorkOK' /\ NoPacketOvertakes'
        BY <1>1, <1>2 DEF Base, StoreOK, WorkOK, NoPacketOvertakes
    <2> QED  BY <1>1, <2>1, <2>2, ServerBase DEF Base
<1>3. CASE /\ store' = [store EXCEPT ![m.salt] = m.key]
           /\ work' = [work EXCEPT ![w] = [at |-> "htua", m |-> m]]
    <2> DEFINE r == [at |-> "htua", m |-> m]
    <2>1. /\ r \in [at : {"htua", "handle", "update"}, m : Message]
          /\ r.m = m /\ r.at = "htua"
        BY <1>1
    <2>2. /\ WorkOK'
          /\ work' \in [Worker -> {Idle} \cup [at : {"htua", "handle", "update"}, m : Message]]
        <3> HIDE DEF r
        <3>1. work' = [work EXCEPT ![w] = r]
            BY <1>3 DEF r
        <3> QED  BY <1>1, <2>1, <3>1, WorkStep
    <2>3. store' \in [Name -> Name0]
        <3>1. m.key \in Name0
            BY <1>1, PacketTypes
        <3> QED  BY <1>1, <1>3, <3>1 DEF TypeOK
    <2>4. TypeOK'
        BY <1>1, <2>2, <2>3 DEF TypeOK, clientVars
    <2>5. \A s \in Name : store'[s] = IF s = m.key THEN m.key ELSE store[s]
        BY <1>1, <1>3 DEF TypeOK
    <2>6. StoreOK'
        BY <1>1, <2>5 DEF Base, StoreOK
    <2>7. NoPacketOvertakes'
        BY <1>1 DEF Base, NoPacketOvertakes
    <2> QED  BY <1>1, <2>2, <2>4, <2>6, <2>7, ServerBase DEF Base
<1> QED  BY <1>2, <1>3 DEF AuthRegister

LEMMA AuthReplyBase ==
    ASSUME Base, NEW w \in Worker, AuthReply(w)
    PROVE  Base'
<1> DEFINE m == work[w].m
<1>1. /\ TypeOK /\ m \in Message /\ m.type = "auth" /\ PacketOK(sent, fresh, m)
      /\ HtuaPacket(m) \in Message
    <2>1. work[w].at = "htua" /\ TypeOK
        BY DEF AuthReply, Base
    <2>2. m \in Message /\ m.type = "auth" /\ PacketOK(sent, fresh, m)
        BY <2>1, WorkTypes DEF Base, WorkOK
    <2> QED  BY <2>1, <2>2, PacketTypes
<1>2. /\ UNCHANGED <<fresh, clientVars, sent, store, handled, repeated, gone, plan>>
      /\ net' \subseteq net \cup {HtuaPacket(m)}
      /\ work' = [work EXCEPT ![w] = Idle]
    BY DEF AuthReply, clientVars
<1>3. /\ WorkOK'
      /\ work' \in [Worker -> {Idle} \cup [at : {"htua", "handle", "update"}, m : Message]]
    BY <1>2, WorkStep
<1>4. TypeOK'
    BY <1>1, <1>2, <1>3 DEF TypeOK, clientVars
<1>5. PacketOK(sent, fresh, HtuaPacket(m))
    <2>1. HtuaPacket(m).type = "htua" /\ HtuaPacket(m).key = m.key
        BY DEF HtuaPacket, Msg
    <2> HIDE DEF m
    <2> QED  BY <1>1, <2>1 DEF PacketOK
<1>6. \A p \in net' : PacketOK(sent, fresh, p)
    BY <1>2, <1>5 DEF Base
<1>7. StoreOK' /\ NoPacketOvertakes'
    BY <1>2 DEF Base, StoreOK, NoPacketOvertakes
<1> QED  BY <1>2, <1>3, <1>4, <1>6, <1>7, ServerBase DEF Base

\* A packet that finds its salt in the store comes after the one that announced it.
LEMMA DataLookupBase ==
    ASSUME Base, NEW w \in Worker, NEW m \in net, DataLookup(w, m)
    PROVE  Base'
<1>1. /\ TypeOK /\ SentOK /\ m \in Message /\ m.type = "data"
      /\ m.key \in Name /\ m.salt \in Name /\ m.new \in Name
      /\ PacketOK(sent, fresh, m) /\ w \in plan.workers
      /\ UNCHANGED <<fresh, clientVars, sent, store, handled, repeated, plan>>
      /\ net' \subseteq net
    BY PacketTypes DEF Base, TypeOK, DataLookup, Without, clientVars
<1>2. StoreOK' /\ NoPacketOvertakes'
    BY <1>1 DEF Base, StoreOK, NoPacketOvertakes
<1>3. gone' \subseteq Name
    BY <1>1 DEF DataLookup, TypeOK
<1>4. /\ WorkOK'
      /\ work' \in [Worker -> {Idle} \cup [at : {"htua", "handle", "update"}, m : Message]]
    <2>1. CASE UNCHANGED work
        BY <1>1, <2>1 DEF Base, WorkOK, TypeOK
    <2>2. CASE /\ Opens(m, store[m.salt])
               /\ work' = [work EXCEPT ![w] = [at |-> "handle", m |-> m]]
        <3> DEFINE r == [at |-> "handle", m |-> m]
        <3>1. /\ r \in [at : {"htua", "handle", "update"}, m : Message]
              /\ r.m = m /\ r.at = "handle"
            BY <1>1
        <3>2. m.salt = m.key \/ m.salt \in handled
            <4>1. store[m.salt] = m.key /\ m.key # None
                BY <1>1, <2>2 DEF Opens, Name, None
            <4> QED  BY <1>1, <4>1 DEF Base, StoreOK
        <3> HIDE DEF r
        <3>3. work' = [work EXCEPT ![w] = r]
            BY <2>2 DEF r
        <3>4. handled \subseteq handled' /\ handled' = handled
            BY <1>1
        <3> QED  BY <1>1, <3>1, <3>2, <3>3, <3>4, WorkStep
    <2> QED  BY <2>1, <2>2 DEF DataLookup
<1>5. TypeOK'
    BY <1>1, <1>3, <1>4 DEF TypeOK, clientVars
<1> QED  BY <1>1, <1>2, <1>4, <1>5, ServerBase DEF Base

\* The handler's packet: where it is in its session, and that those before it
\* have been handled.
LEMMA HandledBefore ==
    ASSUME Base, NEW w \in Worker, work[w].at \in {"handle", "update"}
    PROVE  /\ work[w].m \in Message /\ work[w].m.type = "data"
           /\ PacketOK(sent, fresh, work[w].m)
           /\ w \in plan.workers
           /\ work[w].m.key \in Name /\ work[w].m.salt \in Name /\ work[w].m.new \in Name
           /\ NotSent(sent, work[w].m.key)
           /\ \E i \in 1..Len(sent[work[w].m.key]) :
                 /\ work[w].m.new = sent[work[w].m.key][i]
                 /\ work[w].m.salt = Before(sent, work[w].m.key, i)
                 /\ \A j \in 1..(i - 1) : sent[work[w].m.key][j] \in handled
<1> DEFINE m == work[w].m
<1>1. TypeOK /\ SentOK /\ m \in Message /\ m.type = "data" /\ PacketOK(sent, fresh, m)
      /\ w \in plan.workers
    <2>1. TypeOK /\ SentOK
        BY DEF Base
    <2> QED  BY <2>1, WorkTypes DEF Base, WorkOK
<1>2. m.salt = m.key \/ m.salt \in handled
    BY DEF Base, WorkOK
<1> HIDE DEF m
<1>3. /\ m.key \in Name /\ m.salt \in Name /\ m.new \in Name /\ NotSent(sent, m.key)
      /\ \E i \in 1..Len(sent[m.key]) :
                 m.new = sent[m.key][i] /\ m.salt = Before(sent, m.key, i)
    BY <1>1, PlaceOf
<1>4. PICK i \in 1..Len(sent[m.key]) :
                 m.new = sent[m.key][i] /\ m.salt = Before(sent, m.key, i)
    BY <1>3
<1>5. ASSUME NEW j \in 1..(i - 1) PROVE sent[m.key][j] \in handled
    <2>1. Len(sent[m.key]) \in Nat
        BY <1>1, <1>3, SentTypes
    <2>2. i # 1 /\ i - 1 \in 1..Len(sent[m.key])
        BY <2>1
    <2>3. m.salt = sent[m.key][i - 1]
        BY <1>4, <2>2 DEF Before
    <2>4. m.salt # m.key
        BY <1>3, <2>2, <2>3 DEF NotSent
    <2>5. sent[m.key][i - 1] \in handled
        BY <1>2, <2>3, <2>4
    <2> QED  BY <1>3, <2>2, <2>5 DEF Base, NoPacketOvertakes
<1> QED  BY <1>1, <1>3, <1>4, <1>5 DEF m

\* A packet is handled, after those before it.
LEMMA DataHandleBase ==
    ASSUME Base, NEW w \in Worker, DataHandle(w)
    PROVE  Base'
<1> DEFINE m == work[w].m
<1>1. /\ work[w].at = "handle" /\ TypeOK /\ SentOK
      /\ UNCHANGED <<fresh, clientVars, sent, store, plan>>
      /\ handled' = handled \cup {m.new}
      /\ repeated' = IF m.new \in handled THEN repeated \cup {m.new} ELSE repeated
      /\ net' \subseteq net \cup {ReplyPacket(m)}
      /\ gone' \subseteq gone \cup {m.key}
      /\ \/ work' = [work EXCEPT ![w] = [at |-> "update", m |-> m]]
         \/ work' = [work EXCEPT ![w] = Idle]
    BY DEF DataHandle, Base, clientVars
<1>2. /\ m \in Message /\ m.type = "data" /\ PacketOK(sent, fresh, m) /\ w \in plan.workers
      /\ m.key \in Name /\ m.salt \in Name /\ m.new \in Name
      /\ \E i \in 1..Len(sent[m.key]) :
                 /\ m.new = sent[m.key][i]
                 /\ \A j \in 1..(i - 1) : sent[m.key][j] \in handled
    BY <1>1, HandledBefore
<1>3. m.salt = m.key \/ m.salt \in handled
    BY <1>1 DEF Base, WorkOK
<1> HIDE DEF m
<1>4. /\ WorkOK'
      /\ work' \in [Worker -> {Idle} \cup [at : {"htua", "handle", "update"}, m : Message]]
    <2>1. CASE work' = [work EXCEPT ![w] = Idle]
        BY <1>1, <2>1, WorkStep
    <2>2. CASE work' = [work EXCEPT ![w] = [at |-> "update", m |-> m]]
        <3> DEFINE r == [at |-> "update", m |-> m]
        <3>1. /\ r \in [at : {"htua", "handle", "update"}, m : Message]
              /\ r.m = m /\ r.at = "update"
            BY <1>2
        <3> HIDE DEF r
        <3>2. work' = [work EXCEPT ![w] = r]
            BY <2>2 DEF r
        <3>3. /\ handled \subseteq handled' /\ m.new \in handled'
              /\ m.salt = m.key \/ m.salt \in handled'
            BY <1>1, <1>3
        <3> QED  BY <1>1, <1>2, <3>1, <3>2, <3>3, WorkStep
    <2> QED  BY <1>1, <2>1, <2>2
<1>5. ReplyPacket(m) \in Message
    BY <1>2, PacketTypes
<1>6. TypeOK'
    BY <1>1, <1>2, <1>4, <1>5 DEF TypeOK, clientVars
<1>7. PacketOK(sent, fresh, ReplyPacket(m))
    <2>1. ReplyPacket(m).type = "reply" /\ ReplyPacket(m).key = m.key
        BY DEF ReplyPacket, Msg
    <2> QED  BY <1>2, <2>1 DEF PacketOK
<1>8. \A p \in net' : PacketOK(sent, fresh, p)
    BY <1>1, <1>7 DEF Base
<1>9. StoreOK'
    BY <1>1 DEF Base, StoreOK
<1>10. PICK i \in 1..Len(sent[m.key]) :
                 /\ m.new = sent[m.key][i]
                 /\ \A j \in 1..(i - 1) : sent[m.key][j] \in handled
    BY <1>2
<1>11. NoPacketOvertakes'
    <2>1. ASSUME NEW k \in Name, NEW h \in 1..Len(sent[k]), sent[k][h] \in handled',
                 NEW j \in 1..h
          PROVE  sent[k][j] \in handled'
        <3>1. CASE sent[k][h] \in handled
            BY <1>1, <3>1 DEF Base, NoPacketOvertakes
        <3>2. CASE sent[k][h] = m.new
            <4>1. k = m.key /\ h = i
                BY <1>1, <1>2, <1>10, <3>2 DEF SentOK
            <4>2. j = i \/ j \in 1..(i - 1)
                BY <4>1
            <4> QED  BY <1>1, <1>10, <4>1, <4>2
        <3> QED  BY <1>1, <2>1, <3>1, <3>2
    <2> QED  BY <1>1, <2>1 DEF NoPacketOvertakes
<1>12. \A n \in handled' : n <= fresh
    BY <1>1, <1>2, <1>10 DEF Base, SentOK
<1> QED  BY <1>1, <1>4, <1>6, <1>8, <1>9, <1>11, <1>12, ServerBase

\* The store goes one salt further along the chain.
LEMMA DataUpdateBase ==
    ASSUME Base, NEW w \in Worker, DataUpdate(w)
    PROVE  /\ Base'
           /\ \A s \in Name : store'[s] = IF s = work[w].m.new THEN work[w].m.key
                                          ELSE IF s = work[w].m.salt THEN None
                                          ELSE store[s]
<1> DEFINE m == work[w].m
<1>1. /\ work[w].at = "update" /\ TypeOK /\ SentOK
      /\ UNCHANGED <<net, fresh, clientVars, sent, handled, repeated, gone, plan>>
      /\ store' = [store EXCEPT ![m.salt] = None, ![m.new] = m.key]
      /\ work' = [work EXCEPT ![w] = Idle]
    BY DEF DataUpdate, Base, clientVars
<1>2. /\ m.key \in Name /\ m.salt \in Name /\ m.new \in Name
      /\ \E i \in 1..Len(sent[m.key]) : m.new = sent[m.key][i]
    BY <1>1, HandledBefore
<1>3. m.new \in handled
    BY <1>1 DEF Base, WorkOK
<1>4. /\ WorkOK'
      /\ work' \in [Worker -> {Idle} \cup [at : {"htua", "handle", "update"}, m : Message]]
    BY <1>1, WorkStep
<1> HIDE DEF m
<1>5. m.key \in Name0 /\ None \in Name0
    BY <1>2, SessionAssumption DEF Name, Name0, None
<1>6. /\ store' \in [Name -> Name0]
      /\ \A s \in Name : store'[s] = IF s = m.new THEN m.key
                                     ELSE IF s = m.salt THEN None ELSE store[s]
    BY <1>1, <1>2, <1>5 DEF TypeOK
<1>7. TypeOK'
    BY <1>1, <1>4, <1>6 DEF TypeOK, clientVars
<1>8. StoreOK'
    <2>1. ASSUME NEW s \in Name, store'[s] # None, s # store'[s]
          PROVE  s \in handled /\ \E i \in 1..Len(sent[store'[s]]) : sent[store'[s]][i] = s
        <3>1. CASE s = m.new
            BY <1>2, <1>3, <1>6, <3>1
        <3>2. CASE s # m.new
            BY <1>6, <2>1, <3>2 DEF Base, StoreOK
        <3> QED  BY <3>1, <3>2
    <2> QED  BY <1>1, <2>1 DEF StoreOK
<1>9. NoPacketOvertakes'
    BY <1>1 DEF Base, NoPacketOvertakes
<1>10. Base'
    BY <1>1, <1>4, <1>7, <1>8, <1>9, ServerBase DEF Base
<1> QED  BY <1>6, <1>10 DEF m

LEMMA InitBase ==
    ASSUME Init
    PROVE  Base
<1>1. /\ net = {} /\ fresh = 0 /\ handled = {} /\ repeated = {} /\ gone = {}
      /\ \A c \in Client : /\ phase[c] = "idle" /\ auth[c] = None
                           /\ salt[c] = None /\ key[c] = None
      /\ \A w \in Worker : work[w] = Idle
      /\ \A k \in Name : store[k] = None /\ sent[k] = <<>> /\ Len(sent[k]) = 0
    BY DEF Init
<1>2. 0 \in Name0 /\ None = 0 /\ None \notin Name
    BY SessionAssumption DEF Name, Name0, None
<1>3. TypeOK
    BY <1>2 DEF Init, TypeOK
<1>4. NotSent(sent, None)
    BY <1>1 DEF NotSent
<1>5. SentOK
    BY <1>1 DEF SentOK
<1>6. ClientOK
    BY <1>1, <1>2, <1>4 DEF ClientOK
<1>7. StoreOK /\ NoPacketOvertakes
    BY <1>1 DEF StoreOK, NoPacketOvertakes
<1>8. WorkOK
    BY <1>1 DEF WorkOK, Idle
<1> QED  BY <1>1, <1>3, <1>5, <1>6, <1>7, <1>8 DEF Base

LEMMA NextBase ==
    ASSUME Base, [Next]_vars
    PROVE  Base'
<1>1. CASE \E m \in net : Lose(m) \/ HelloHandler(m)
    BY <1>1, QuietActions, QuietBase DEF Base
<1>2. CASE \E c \in Client : Hello(c) \/ Auth(c) \/ Send(c) \/ Answer(c) \/ GiveUp(c)
    <2>1. CASE \E c \in Client : Hello(c) \/ GiveUp(c)
        BY <2>1, QuietActions, QuietBase DEF Base
    <2>2. CASE \E c \in Client, m \in net : Olleh(c, m) \/ Recv(c, m)
        BY <2>2, QuietActions, QuietBase DEF Base
    <2>3. CASE \E c \in Client : Auth(c)
        BY <2>3, AuthBase
    <2>4. CASE \E c \in Client : Send(c)
        BY <2>4, SendBase
    <2>5. CASE \E c \in Client, m \in net : Htua(c, m)
        BY <2>5, HtuaBase
    <2> QED  BY <1>2, <2>1, <2>2, <2>3, <2>4, <2>5 DEF Answer
<1>3. CASE \E w \in Worker : Serve(w)
    BY <1>3, AuthRegisterBase, AuthReplyBase, DataLookupBase, DataHandleBase, DataUpdateBase
       DEF Serve
<1>4. CASE UNCHANGED vars
    <2>1. UNCHANGED <<fresh, clientVars, plan, net, work, store, handled, repeated, gone>>
        BY <1>4 DEF vars, serverVars
    <2>2. TypeOK'
        BY <2>1 DEF Base, TypeOK, clientVars
    <2>3. StoreOK' /\ WorkOK' /\ NoPacketOvertakes'
        BY <2>1 DEF Base, StoreOK, WorkOK, NoPacketOvertakes, clientVars
    <2> QED  BY <2>1, <2>2, <2>3, ServerBase DEF Base
<1> QED  BY <1>1, <1>2, <1>3, <1>4 DEF Next

-----------------------------------------------------------------------------
(* Registration and the next salt.                                         *)

\* InStep for one client.
Announced(c) ==
    \/ store[salt[c]] = key[c]
    \/ \E m \in net : m.type = "data" /\ m.new = salt[c]
    \/ \E w \in Worker : work[w].at \in {"handle", "update"} /\ work[w].m.new = salt[c]

InStepAt(c) == key[c] # None /\ key[c] \notin gone => Announced(c)

LEMMA RegisteredKept ==
    ASSUME Registered, NEW c \in Client,
           phase'[c] = "auth" => phase[c] = "auth" /\ auth'[c] = auth[c],
           \A m \in net' : m.type = "htua" =>
              m \in net \/ \E w \in Worker : work[w].at = "htua" /\ work[w].m.key = m.key,
           \A w \in Worker : work'[w].at = "htua" =>
              work'[w] = work[w] \/ store'[work'[w].m.key] = work'[w].m.key,
           phase[c] = "auth" /\ store[auth[c]] = auth[c] => store'[auth[c]] = auth[c]
    PROVE  RegisteredAt(c)'
<1> SUFFICES ASSUME phase'[c] = "auth",
                    \/ \E m \in net' : m.type = "htua" /\ m.key = auth'[c]
                    \/ \E w \in Worker : work'[w].at = "htua" /\ work'[w].m.key = auth'[c]
             PROVE  store'[auth'[c]] = auth'[c]
    BY DEF RegisteredAt
<1>1. phase[c] = "auth" /\ auth'[c] = auth[c]
    OBVIOUS
<1>2. CASE \E m \in net' : m.type = "htua" /\ m.key = auth'[c]
    BY <1>1, <1>2 DEF Registered, RegisteredAt
<1>3. CASE \E w \in Worker : work'[w].at = "htua" /\ work'[w].m.key = auth'[c]
    BY <1>1, <1>3 DEF Registered, RegisteredAt
<1> QED  BY <1>2, <1>3

LEMMA InStepKept ==
    ASSUME InStep, gone \subseteq gone', NEW c \in Client,
           key'[c] = key[c], salt'[c] = salt[c],
           \A m \in net : key[c] # None /\ m.type = "data" /\ m.new = salt[c] =>
              m \in net' \/ key[c] \in gone' \/ Announced(c)',
           \A w \in Worker : key[c] # None /\ work[w].at \in {"handle", "update"}
                             /\ work[w].m.new = salt[c] =>
              work'[w] = work[w] \/ key[c] \in gone' \/ Announced(c)',
           key[c] # None /\ store[salt[c]] = key[c] => store'[salt[c]] = key[c]
    PROVE  InStepAt(c)'
<1> SUFFICES ASSUME key[c] # None, key[c] \notin gone' PROVE Announced(c)'
    BY DEF InStepAt
<1>1. Announced(c)
    BY DEF InStep, Announced
<1>2. CASE store[salt[c]] = key[c]
    BY <1>2 DEF Announced
<1>3. CASE \E m \in net : m.type = "data" /\ m.new = salt[c]
    BY <1>3 DEF Announced
<1>4. CASE \E w \in Worker : work[w].at \in {"handle", "update"} /\ work[w].m.new = salt[c]
    BY <1>4 DEF Announced
<1> QED  BY <1>1, <1>2, <1>3, <1>4 DEF Announced

\* The packet that announces a client's salt is of its session, and no packet
\* was sent under that salt.
LEMMA SessionOf ==
    ASSUME Base, NEW m \in Message, m.type = "data", PacketOK(sent, fresh, m),
           NEW c \in Client, key[c] # None
    PROVE  (m.new = salt[c] => m.key = key[c]) /\ m.salt # salt[c]
<1> DEFINE k == key[c]
<1>1. /\ TypeOK /\ SentOK /\ k \in Name /\ NotSent(sent, k)
      /\ salt[c] = Before(sent, k, Len(sent[k]) + 1)
    BY DEF Base, ClientOK, TypeOK, Name, Name0, None
<1>2. Len(sent[k]) \in Nat /\ Len(sent[k]) + 1 \in 1..(Len(sent[k]) + 1)
    <2>1. Len(sent[k]) \in Nat
        BY <1>1, SentTypes
    <2> QED  BY <2>1
<1> HIDE DEF k
<1>3. /\ m.key \in Name /\ NotSent(sent, m.key)
      /\ \E i \in 1..Len(sent[m.key]) :
                 /\ m.new = sent[m.key][i] /\ m.salt = Before(sent, m.key, i)
                 /\ i \in 1..(Len(sent[m.key]) + 1)
                 /\ i + 1 \in 1..(Len(sent[m.key]) + 1)
                 /\ Before(sent, m.key, i + 1) = m.new
    BY <1>1, PlaceOf
<1>4. PICK i \in 1..Len(sent[m.key]) :
                 /\ m.new = sent[m.key][i] /\ m.salt = Before(sent, m.key, i)
                 /\ i \in 1..(Len(sent[m.key]) + 1)
                 /\ i + 1 \in 1..(Len(sent[m.key]) + 1)
                 /\ Before(sent, m.key, i + 1) = m.new
    BY <1>3
<1>5. m.salt # salt[c]
    <2> SUFFICES ASSUME m.salt = salt[c] PROVE FALSE
        OBVIOUS
    <2>1. Before(sent, m.key, i) = Before(sent, k, Len(sent[k]) + 1)
        BY <1>1, <1>4
    <2>2. i \in 1..(Len(sent[m.key]) + 1)
        BY <1>4
    <2>3. m.key = k /\ i = Len(sent[k]) + 1
        BY <1>1, <1>2, <1>3, <2>1, <2>2, BeforeIsUnique
    <2> QED  BY <1>2, <1>4, <2>3
<1>6. ASSUME m.new = salt[c] PROVE m.key = k
    BY <1>1, <1>2, <1>3, <1>4, <1>6, BeforeIsUnique
<1> QED  BY <1>5, <1>6 DEF k

LEMMA InStepAll ==
    ASSUME \A c \in Client : InStepAt(c)'
    PROVE  InStep'
BY DEF InStep, InStepAt, Announced

\* Steps that leave the sessions alone and lose at most packets.
Losing ==
    /\ UNCHANGED <<auth, salt, key, store, work>>
    /\ \A c \in Client : phase'[c] = "auth" => phase[c] = "auth"
    /\ \A m \in net' : m.type = "htua" => m \in net
    /\ \A m \in net : m.type = "data" => m \in net' \/ m.key \in gone'
    /\ gone \subseteq gone'

LEMMA LosingSteps ==
    ASSUME Base, Registered, InStep, Losing
    PROVE  Registered' /\ InStep'
<1>1. UNCHANGED <<auth, salt, key, store, work>> /\ gone \subseteq gone'
    BY DEF Losing
<1>2. ASSUME NEW c \in Client PROVE RegisteredAt(c)'
    BY <1>1, RegisteredKept DEF Losing
<1>3. ASSUME NEW c \in Client PROVE InStepAt(c)'
    <2>1. ASSUME NEW m \in net, key[c] # None, m.type = "data", m.new = salt[c]
          PROVE  m \in net' \/ key[c] \in gone'
        <3>1. m \in Message /\ PacketOK(sent, fresh, m)
            BY DEF Base, TypeOK
        <3>2. m.key = key[c]
            BY <2>1, <3>1, SessionOf
        <3> QED  BY <2>1, <3>2 DEF Losing
    <2> QED  BY <1>1, <2>1, InStepKept
<1> QED  BY <1>2, <1>3, InStepAll DEF Registered

LEMMA LosingActions ==
    ASSUME Base,
           \/ \E m \in net : Lose(m) \/ HelloHandler(m)
           \/ \E c \in Client : Hello(c) \/ GiveUp(c)
           \/ \E c \in Client, m \in net : Olleh(c, m) \/ Recv(c, m)
    PROVE  Losing
<1>1. phase \in [Client -> {"idle", "hello", "auth", "recv"}]
    BY DEF Base, TypeOK
<1>2. ASSUME NEW m \in net, Lose(m) PROVE Losing
    BY <1>2 DEF Lose, Losing, clientVars, serverVars
<1>3. ASSUME NEW m \in net, HelloHandler(m) PROVE Losing
    <2>1. OllehPacket(m.client).type # "htua"
        BY DEF OllehPacket, Msg
    <2> QED  BY <1>3, <2>1 DEF HelloHandler, Without, Losing, clientVars, serverVars
<1>4. ASSUME NEW c \in Client, Hello(c) PROVE Losing
    <2>1. HelloPacket(c).type # "htua"
        BY DEF HelloPacket, Msg
    <2>2. \A d \in Client : phase'[d] = "auth" => phase[d] = "auth"
        BY <1>1, <1>4 DEF Hello, SendFails, SendThenWait
    <2> QED  BY <1>4, <2>1, <2>2 DEF Hello, SendFails, SendThenWait, Losing, serverVars
<1>5. ASSUME NEW c \in Client, GiveUp(c) PROVE Losing
    BY <1>1, <1>5 DEF GiveUp, Losing, serverVars
<1>6. ASSUME NEW c \in Client, NEW m \in net, Olleh(c, m) PROVE Losing
    BY <1>1, <1>6 DEF Olleh, Without, Losing, serverVars
<1>7. ASSUME NEW c \in Client, NEW m \in net, Recv(c, m) PROVE Losing
    BY <1>1, <1>7 DEF Recv, Without, Losing, serverVars
<1> QED  BY <1>2, <1>3, <1>4, <1>5, <1>6, <1>7

\* auth(): nobody has answered the new key.
LEMMA AuthSteps ==
    ASSUME Base, Registered, InStep, NEW c \in Client, Auth(c)
    PROVE  Registered' /\ InStep'
<1>1. /\ TypeOK /\ fresh \in Nat /\ fresh' = fresh + 1 /\ Name0 \subseteq Nat
      /\ UNCHANGED <<salt, key, work, store, gone>>
      /\ auth' = [auth EXCEPT ![c] = fresh']
      /\ \/ UNCHANGED <<net, phase>>
         \/ /\ net' = net \cup {AuthPacket(c, fresh')}
            /\ phase' = [phase EXCEPT ![c] = "auth"]
    BY PlanFacts, SessionAssumption
       DEF Base, Auth, SendFails, SendThenWait, serverVars, Name0
<1>2. AuthPacket(c, fresh').type = "auth"
    BY DEF AuthPacket, Msg
<1>3. ASSUME NEW d \in Client PROVE RegisteredAt(d)'
    <2>1. CASE d # c
        <3>1. auth'[d] = auth[d] /\ phase'[d] = phase[d]
            BY <1>1, <2>1 DEF TypeOK
        <3> QED  BY <1>1, <1>2, <3>1, RegisteredKept
    <2>2. CASE d = c
        <3>1. auth'[c] = fresh + 1
            BY <1>1 DEF TypeOK
        <3>2. \A m \in net : m.key \in Nat /\ m.key <= fresh
            BY <1>1, PacketTypes DEF Base, TypeOK, PacketOK
        <3>3. \A w \in Worker : work[w].at = "htua" =>
                    work[w].m.key \in Nat /\ work[w].m.key <= fresh
            BY <1>1, WorkTypes, PacketTypes DEF Base, WorkOK, PacketOK
        <3>4. \A m \in net' : m.type = "htua" => m.key # auth'[c]
            BY <1>1, <1>2, <3>1, <3>2
        <3>5. \A w \in Worker : work'[w].at = "htua" => work'[w].m.key # auth'[c]
            BY <1>1, <3>1, <3>3
        <3> QED  BY <2>2, <3>4, <3>5 DEF RegisteredAt
    <2> QED  BY <2>1, <2>2
<1>4. ASSUME NEW d \in Client PROVE InStepAt(d)'
    BY <1>1, InStepKept
<1> QED  BY <1>3, <1>4, InStepAll DEF Registered

\* auth() succeeds: the answer shows that the session is in the store.
LEMMA HtuaSteps ==
    ASSUME Base, Registered, InStep, NEW c \in Client, NEW m \in net, Htua(c, m)
    PROVE  Registered' /\ InStep'
<1>1. /\ TypeOK /\ phase[c] = "auth" /\ m.type = "htua"
      /\ UNCHANGED <<auth, work, store, gone>>
      /\ phase' = [phase EXCEPT ![c] = "idle"]
      /\ \A p \in net' : p \in net
      /\ \A p \in net : p.type = "data" => p \in net'
      /\ \/ UNCHANGED <<salt, key>>
         \/ /\ m.key = auth[c]
            /\ salt' = [salt EXCEPT ![c] = auth[c]]
            /\ key' = [key EXCEPT ![c] = auth[c]]
    BY DEF Base, Htua, Opens, Without, serverVars
<1>2. \A d \in Client : phase'[d] = "auth" => phase[d] = "auth"
    BY <1>1 DEF TypeOK
<1>3. ASSUME NEW d \in Client PROVE RegisteredAt(d)'
    BY <1>1, <1>2, RegisteredKept
<1>4. ASSUME NEW d \in Client PROVE InStepAt(d)'
    <2>1. CASE salt'[d] = salt[d] /\ key'[d] = key[d]
        BY <1>1, <2>1, InStepKept
    <2>2. CASE d = c /\ m.key = auth[c] /\ salt'[c] = auth[c] /\ key'[c] = auth[c]
        BY <1>1, <2>2 DEF Registered, RegisteredAt, InStepAt, Announced
    <2> QED  BY <1>1, <2>1, <2>2 DEF TypeOK
<1> QED  BY <1>3, <1>4, InStepAll DEF Registered

\* A packet that is sent announces the next salt.
LEMMA SendSteps ==
    ASSUME Base, Registered, InStep, NEW c \in Client, Send(c)
    PROVE  Registered' /\ InStep'
<1>1. CASE SendFails(c) /\ UNCHANGED <<salt, sent>>
    BY <1>1, LosingSteps DEF Send, SendFails, Losing, serverVars
<1>2. CASE \E call \in {"recv", "idle"} :
             /\ SendThenWait(c, call, DataPacket(c, key[c], salt[c], fresh'))
             /\ salt' = [salt EXCEPT ![c] = fresh']
    <2> DEFINE m == DataPacket(c, key[c], salt[c], fresh')
    <2>1. /\ TypeOK /\ UNCHANGED <<auth, key, work, store, gone>>
          /\ net' = net \cup {m} /\ salt' = [salt EXCEPT ![c] = fresh']
        BY <1>2 DEF Base, Send, SendThenWait, serverVars
    <2>2. \A d \in Client : phase'[d] = "auth" => phase[d] = "auth"
        BY <1>2, <2>1 DEF SendThenWait, TypeOK
    <2>3. m.type = "data" /\ m.new = fresh'
        BY DEF DataPacket, Msg
    <2> HIDE DEF m
    <2>4. ASSUME NEW d \in Client PROVE RegisteredAt(d)'
        BY <2>1, <2>2, <2>3, RegisteredKept
    <2>5. ASSUME NEW d \in Client PROVE InStepAt(d)'
        <3>1. CASE d # c
            <4>1. salt'[d] = salt[d]
                BY <2>1, <3>1 DEF TypeOK
            <4> QED  BY <2>1, <4>1, InStepKept
        <3>2. CASE d = c
            <4>1. salt'[c] = fresh'
                BY <2>1 DEF TypeOK
            <4> QED  BY <2>1, <2>3, <3>2, <4>1 DEF InStepAt, Announced
        <3> QED  BY <3>1, <3>2
    <2> QED  BY <2>4, <2>5, InStepAll DEF Registered
<1> QED  BY <1>1, <1>2 DEF Send

\* register_auth_cb_ before the answer.  A client that is already past this salt
\* does not use it.
LEMMA AuthRegisterSteps ==
    ASSUME Base, Registered, InStep, NEW w \in Worker, NEW m \in net, AuthRegister(w, m)
    PROVE  Registered' /\ InStep'
<1>1. /\ TypeOK /\ SentOK /\ m \in Message /\ m.type = "auth" /\ m.key \in Name
      /\ m.salt = m.key /\ NotSent(sent, m.key) /\ work[w].at = "idle"
      /\ UNCHANGED <<phase, auth, salt, key, gone>>
      /\ \A p \in net' : p \in net
      /\ \A p \in net : p.type = "data" => p \in net'
    BY PacketTypes DEF Base, TypeOK, AuthRegister, Without, PacketOK, clientVars, Idle
<1>2. CASE UNCHANGED <<store, work>>
    BY <1>1, <1>2, LosingSteps DEF Losing
<1>3. CASE /\ store' = [store EXCEPT ![m.salt] = m.key]
           /\ work' = [work EXCEPT ![w] = [at |-> "htua", m |-> m]]
    <2>1. /\ \A s \in Name : store'[s] = IF s = m.key THEN m.key ELSE store[s]
          /\ \A v \in Worker : v # w => work'[v] = work[v]
          /\ work'[w].m = m
        BY <1>1, <1>3 DEF TypeOK
    <2>2. ASSUME NEW c \in Client PROVE RegisteredAt(c)'
        <3>1. phase[c] = "auth" => auth[c] \in Name
            BY <1>1 DEF Base, ClientOK, TypeOK, Name, Name0, None
        <3>2. phase[c] = "auth" /\ store[auth[c]] = auth[c] => store'[auth[c]] = auth[c]
            BY <2>1, <3>1
        <3>3. \A v \in Worker : work'[v].at = "htua" =>
                    work'[v] = work[v] \/ store'[work'[v].m.key] = work'[v].m.key
            BY <1>1, <2>1
        <3> QED  BY <1>1, <3>2, <3>3, RegisteredKept
    <2>3. ASSUME NEW c \in Client PROVE InStepAt(c)'
        <3>1. ASSUME key[c] # None, store[salt[c]] = key[c] PROVE store'[salt[c]] = key[c]
            <4>1. /\ key[c] \in Name
                  /\ salt[c] = Before(sent, key[c], Len(sent[key[c]]) + 1)
                BY <1>1, <3>1 DEF Base, ClientOK, TypeOK, Name, Name0, None
            <4>2. Len(sent[key[c]]) \in Nat
                BY <1>1, <4>1, SentTypes
            <4>3. Len(sent[key[c]]) + 1 \in 1..(Len(sent[key[c]]) + 1)
                BY <4>2
            <4>4. /\ salt[c] \in Name
                  /\ \/ salt[c] = key[c]
                     \/ \E i \in 1..Len(sent[key[c]]) : salt[c] = sent[key[c]][i]
                BY <1>1, <4>1, <4>3, BeforeFacts
            <4>5. salt[c] = m.key => salt[c] = key[c]
                BY <1>1, <4>1, <4>4 DEF NotSent
            <4> QED  BY <2>1, <3>1, <4>4, <4>5
        <3> QED  BY <1>1, <2>1, <3>1, InStepKept
    <2> QED  BY <2>2, <2>3, InStepAll DEF Registered
<1> QED  BY <1>2, <1>3 DEF AuthRegister

LEMMA AuthReplySteps ==
    ASSUME Base, Registered, InStep, NEW w \in Worker, AuthReply(w)
    PROVE  Registered' /\ InStep'
<1>1. /\ TypeOK /\ work[w].at = "htua"
      /\ UNCHANGED <<phase, auth, salt, key, store, gone>>
      /\ net \subseteq net' /\ net' \subseteq net \cup {HtuaPacket(work[w].m)}
      /\ work' = [work EXCEPT ![w] = Idle]
    BY DEF Base, AuthReply, clientVars
<1>2. /\ \A v \in Worker : v # w => work'[v] = work[v]
      /\ work'[w].at = "idle"
    BY <1>1 DEF TypeOK, Idle
<1>3. HtuaPacket(work[w].m).key = work[w].m.key
    BY DEF HtuaPacket, Msg
<1>4. ASSUME NEW c \in Client PROVE RegisteredAt(c)'
    BY <1>1, <1>2, <1>3, RegisteredKept
<1>5. ASSUME NEW c \in Client PROVE InStepAt(c)'
    BY <1>1, <1>2, InStepKept
<1> QED  BY <1>4, <1>5, InStepAll DEF Registered

\* The worker has the packet, or drops it.
LEMMA DataLookupSteps ==
    ASSUME Base, Registered, InStep, NEW w \in Worker, NEW m \in net, DataLookup(w, m)
    PROVE  Registered' /\ InStep'
<1>1. /\ TypeOK /\ m \in Message /\ m.type = "data" /\ PacketOK(sent, fresh, m)
      /\ work[w].at = "idle"
      /\ UNCHANGED <<phase, auth, salt, key, store>>
      /\ \A p \in net' : p \in net
      /\ \A p \in net : p \in net' \/ p = m
      /\ gone \subseteq gone'
    BY DEF Base, TypeOK, DataLookup, Without, clientVars, Idle
<1>2. CASE work' = work /\ m.key \in gone'
    BY <1>1, <1>2, LosingSteps DEF Losing
<1>3. CASE work' = [work EXCEPT ![w] = [at |-> "handle", m |-> m]]
    <2>1. /\ \A v \in Worker : v # w => work'[v] = work[v]
          /\ work'[w].at = "handle" /\ work'[w].m = m
        BY <1>1, <1>3 DEF TypeOK
    <2>2. ASSUME NEW c \in Client PROVE RegisteredAt(c)'
        BY <1>1, <2>1, RegisteredKept
    <2>3. ASSUME NEW c \in Client PROVE InStepAt(c)'
        <3>1. m.new = salt[c] => Announced(c)'
            BY <1>1, <2>1 DEF Announced
        <3> QED  BY <1>1, <2>1, <3>1, InStepKept
    <2> QED  BY <2>2, <2>3, InStepAll DEF Registered
<1> QED  BY <1>2, <1>3 DEF DataLookup

\* handle_data_cb_ succeeds and the new salt will be registered, or fails.
LEMMA DataHandleSteps ==
    ASSUME Base, Registered, InStep, NEW w \in Worker, DataHandle(w)
    PROVE  Registered' /\ InStep'
<1> DEFINE m == work[w].m
<1>1. /\ TypeOK /\ work[w].at = "handle"
      /\ UNCHANGED <<phase, auth, salt, key, store>>
      /\ net \subseteq net' /\ net' \subseteq net \cup {ReplyPacket(m)}
      /\ gone \subseteq gone'
      /\ \/ work' = [work EXCEPT ![w] = [at |-> "update", m |-> m]]
         \/ work' = [work EXCEPT ![w] = Idle] /\ m.key \in gone'
    BY DEF Base, DataHandle, clientVars
<1>2. /\ \A v \in Worker : v # w => work'[v] = work[v]
      /\ \/ work'[w].at = "update" /\ work'[w].m = m
         \/ work'[w].at = "idle" /\ m.key \in gone'
    BY <1>1 DEF TypeOK, Idle
<1>3. ReplyPacket(m).type # "htua"
    BY DEF ReplyPacket, Msg
<1>4. m \in Message /\ m.type = "data" /\ PacketOK(sent, fresh, m)
    BY <1>1, HandledBefore
<1> HIDE DEF m
<1>5. ASSUME NEW c \in Client PROVE RegisteredAt(c)'
    BY <1>1, <1>2, <1>3, RegisteredKept
<1>6. ASSUME NEW c \in Client PROVE InStepAt(c)'
    <2>1. ASSUME key[c] # None, m.new = salt[c]
          PROVE  key[c] \in gone' \/ Announced(c)'
        <3>1. m.key = key[c]
            BY <1>4, <2>1, SessionOf
        <3>2. CASE work'[w].at = "update" /\ work'[w].m = m
            BY <1>1, <2>1, <3>2 DEF Announced
        <3> QED  BY <1>2, <3>1, <3>2
    <2>2. \A v \in Worker : key[c] # None /\ work[v].at \in {"handle", "update"}
                             /\ work[v].m.new = salt[c] =>
              work'[v] = work[v] \/ key[c] \in gone' \/ Announced(c)'
        BY <1>2, <2>1 DEF m
    <2> QED  BY <1>1, <2>2, InStepKept
<1> QED  BY <1>5, <1>6, InStepAll DEF Registered

\* update_session_cb_ registers the salt of the client who sent the packet, and
\* erases one that no client uses any more.
LEMMA DataUpdateSteps ==
    ASSUME Base, Registered, InStep, NEW w \in Worker, DataUpdate(w)
    PROVE  Registered' /\ InStep'
<1> DEFINE m == work[w].m
<1>1. /\ TypeOK /\ SentOK /\ work[w].at = "update"
      /\ UNCHANGED <<net, phase, auth, salt, key, gone>>
      /\ work' = [work EXCEPT ![w] = Idle]
    BY DEF Base, DataUpdate, clientVars
<1>2. \A v \in Worker : IF v = w THEN work'[v].at = "idle" ELSE work'[v] = work[v]
    BY <1>1 DEF TypeOK, Idle
<1>3. \A s \in Name : store'[s] = IF s = m.new THEN m.key
                                  ELSE IF s = m.salt THEN None ELSE store[s]
    BY DataUpdateBase
<1>4. /\ m \in Message /\ m.type = "data" /\ PacketOK(sent, fresh, m)
      /\ m.new \in Name /\ m.key \in Name
    BY <1>1, HandledBefore
<1>5. \A v \in Worker : v # w \/ work[v].m = m
    OBVIOUS
<1> HIDE DEF m
<1>6. ASSUME NEW c \in Client PROVE RegisteredAt(c)'
    <2>1. ASSUME phase[c] = "auth" PROVE auth[c] \in Name /\ auth[c] # m.new /\ auth[c] # m.salt
        <3>1. auth[c] \in Name /\ NotSent(sent, auth[c]) /\ sent[auth[c]] = <<>>
            BY <1>1, <2>1 DEF Base, ClientOK, TypeOK, Name, Name0, None
        <3>2. PICK i \in 1..Len(sent[m.key]) :
                    /\ m.new = sent[m.key][i] /\ m.salt = Before(sent, m.key, i)
                    /\ i \in 1..(Len(sent[m.key]) + 1)
            BY <1>1, <1>4, PlaceOf
        <3>3. sent[m.key] # <<>>
            BY <1>1, <1>4, PlaceOf
        <3>4. m.salt = m.key \/ \E j \in 1..Len(sent[m.key]) : m.salt = sent[m.key][j]
            BY <1>1, <1>4, <3>2, BeforeFacts
        <3> QED  BY <1>4, <3>1, <3>2, <3>3, <3>4 DEF NotSent
    <2>2. phase[c] = "auth" /\ store[auth[c]] = auth[c] => store'[auth[c]] = auth[c]
        BY <1>3, <2>1
    <2>3. \A v \in Worker : work'[v].at = "htua" => work'[v] = work[v]
        BY <1>2
    <2> QED  BY <1>1, <2>2, <2>3, RegisteredKept
<1>7. ASSUME NEW c \in Client PROVE InStepAt(c)'
    <2>1. ASSUME key[c] # None
          PROVE  salt[c] # m.salt /\ (m.new = salt[c] => store'[salt[c]] = key[c])
        BY <1>3, <1>4, <2>1, SessionOf
    <2>2. key[c] # None => salt[c] \in Name
        <3> SUFFICES ASSUME key[c] # None PROVE salt[c] \in Name
            OBVIOUS
        <3>1. /\ key[c] \in Name
              /\ salt[c] = Before(sent, key[c], Len(sent[key[c]]) + 1)
            BY <1>1 DEF Base, ClientOK, TypeOK, Name, Name0, None
        <3>2. Len(sent[key[c]]) \in Nat
            BY <1>1, <3>1, SentTypes
        <3>3. Len(sent[key[c]]) + 1 \in 1..(Len(sent[key[c]]) + 1)
            BY <3>2
        <3> QED  BY <1>1, <3>1, <3>3, BeforeFacts
    <2>3. key[c] # None /\ store[salt[c]] = key[c] => store'[salt[c]] = key[c]
        BY <1>3, <2>1, <2>2
    <2>4. key[c] # None /\ m.new = salt[c] => Announced(c)'
        BY <1>1, <2>1 DEF Announced
    <2>5. \A v \in Worker : key[c] # None /\ work[v].at \in {"handle", "update"}
                             /\ work[v].m.new = salt[c] =>
              work'[v] = work[v] \/ key[c] \in gone' \/ Announced(c)'
        BY <1>2, <1>5, <2>4
    <2> QED  BY <1>1, <2>3, <2>5, InStepKept
<1> QED  BY <1>6, <1>7, InStepAll DEF Registered

-----------------------------------------------------------------------------
(* One worker.                                                             *)

LEMMA OneAtWork ==
    ASSUME Base, Serial
    PROVE  /\ ~plan.fails /\ "auth" \notin plan.dup
           /\ \A v, w \in Worker : v \in plan.workers /\ w \in plan.workers => v = w
           /\ \A v, w \in Worker : work[v].at # "idle" /\ w \in plan.workers => v = w
<1>1. IsFiniteSet(plan.workers) /\ Cardinality(plan.workers) = 1
    BY PlanFacts DEF Base, Serial
<1>2. \E x : plan.workers = {x}
    BY <1>1, FS_Singleton
<1>3. \A v \in Worker : work[v].at # "idle" => v \in plan.workers
    BY DEF Base, WorkOK
<1> QED  BY <1>2, <1>3 DEF Serial

\* Steps after which there is no new auth packet, and nothing new that follows one.
LEMMA AuthFirstKept ==
    ASSUME AuthFirst,
           \A m \in net' : m.type = "auth" => m \in net /\ sent'[m.key] = sent[m.key],
           \A m \in net' : m.type = "htua" =>
              m \in net \/ \E w \in Worker : work[w].at = "htua" /\ work[w].m.key = m.key,
           \A w \in Worker : work'[w].at = "htua" => work'[w] = work[w],
           \A c \in Client : \/ key'[c] = key[c]
                             \/ \E m \in net : m.type = "htua" /\ m.key = key'[c]
    PROVE  AuthFirst'
<1> SUFFICES ASSUME NEW m \in net', m.type = "auth"
             PROVE  /\ sent'[m.key] = <<>>
                    /\ \A c \in Client : key'[c] # m.key
                    /\ \A n \in net' : n.type = "htua" => n.key # m.key
                    /\ \A n \in net' : n.type = "auth" /\ n.key = m.key => n = m
                    /\ \A w \in Worker : work'[w].at = "htua" => work'[w].m.key # m.key
    BY DEF AuthFirst
<1>1. /\ m \in net /\ sent'[m.key] = sent[m.key]
    OBVIOUS
<1>2. /\ sent[m.key] = <<>>
      /\ \A c \in Client : key[c] # m.key
      /\ \A n \in net : n.type = "htua" => n.key # m.key
      /\ \A n \in net : n.type = "auth" /\ n.key = m.key => n = m
      /\ \A w \in Worker : work[w].at = "htua" => work[w].m.key # m.key
    BY <1>1 DEF AuthFirst
<1>3. \A c \in Client : key'[c] # m.key
    BY <1>2
<1>4. \A n \in net' : n.type = "htua" => n.key # m.key
    BY <1>2
<1>5. \A n \in net' : n.type = "auth" /\ n.key = m.key => n = m
    BY <1>2
<1>6. \A w \in Worker : work'[w].at = "htua" => work'[w].m.key # m.key
    BY <1>2
<1> QED  BY <1>1, <1>2, <1>3, <1>4, <1>5, <1>6

\* Steps that handle no data.
LEMMA UnhandledKept ==
    ASSUME NextUnhandled, UNCHANGED <<store, sent, handled>>,
           \A w \in Worker : work'[w].at \in {"handle", "update"} \/ work[w].at = "update" =>
              work'[w] = work[w]
    PROVE  NextUnhandled'
<1>1. ASSUME NEW s \in Name, store[s] # None, NEW i \in 1..Len(sent[store[s]]),
             Before(sent, store[s], i) = s
      PROVE  \/ sent[store[s]][i] \notin handled
             \/ \E w \in Worker : /\ work'[w].at = "update"
                                  /\ work'[w].m.new = sent[store[s]][i]
    BY <1>1 DEF NextUnhandled
<1>2. ASSUME NEW w \in Worker
      PROVE  /\ work'[w].at = "handle" => work'[w].m.new \notin handled
             /\ work'[w].at = "update" =>
                   \A i \in 1..Len(sent[work'[w].m.key]) :
                       Before(sent, work'[w].m.key, i) = work'[w].m.new =>
                           sent[work'[w].m.key][i] \notin handled
    BY DEF NextUnhandled
<1> QED  BY <1>1, <1>2 DEF NextUnhandled

LEMMA LosingSerial ==
    ASSUME SerialParts, Losing, UNCHANGED <<sent, handled, repeated>>,
           \A m \in net' : m.type = "auth" => m \in net
    PROVE  SerialParts'
<1>1. AuthFirst'
    BY AuthFirstKept DEF SerialParts, Losing
<1>2. NextUnhandled'
    BY UnhandledKept DEF SerialParts, Losing
<1> QED  BY <1>1, <1>2 DEF SerialParts

LEMMA LosingActionsSerial ==
    ASSUME Base, SerialParts,
           \/ \E m \in net : Lose(m) \/ HelloHandler(m)
           \/ \E c \in Client : Hello(c) \/ GiveUp(c)
           \/ \E c \in Client, m \in net : Olleh(c, m) \/ Recv(c, m)
    PROVE  SerialParts'
<1>1. Losing
    BY LosingActions
<1>2. UNCHANGED <<sent, handled, repeated>>
    BY DEF Lose, HelloHandler, Hello, GiveUp, Olleh, Recv, clientVars, serverVars
<1>3. \A m \in net' : m.type = "auth" => m \in net
    <2>1. \A c : OllehPacket(c).type # "auth" /\ HelloPacket(c).type # "auth"
        BY DEF OllehPacket, HelloPacket, Msg
    <2> QED  BY <2>1 DEF Lose, HelloHandler, Hello, GiveUp, Olleh, Recv, Without,
                         SendFails, SendThenWait
<1> QED  BY <1>1, <1>2, <1>3, LosingSerial

\* The new key is later than everything.
LEMMA AuthSerial ==
    ASSUME Base, SerialParts, NEW c \in Client, Auth(c)
    PROVE  SerialParts'
<1> DEFINE n == fresh + 1
           a == AuthPacket(c, n)
<1>1. /\ TypeOK /\ fresh \in Nat /\ n \in Name
      /\ UNCHANGED <<key, sent, work, store, handled, repeated>>
      /\ net' \subseteq net \cup {a}
    BY PlanFacts DEF Base, Auth, SendFails, SendThenWait, serverVars
<1>2. a.type = "auth" /\ a.key = n
    BY DEF AuthPacket, Msg
<1>3. /\ \A m \in net : m.key \in Nat /\ m.key <= fresh
      /\ \A d \in Client : key[d] \in Nat /\ key[d] <= fresh
      /\ \A w \in Worker : work[w].at = "htua" =>
            work[w].m.key \in Nat /\ work[w].m.key <= fresh
    <2>1. Name0 \subseteq Nat
        BY DEF Name0
    <2>2. \A m \in net : m.key \in Nat /\ m.key <= fresh
        BY <1>1, <2>1, PacketTypes DEF Base, TypeOK, PacketOK
    <2>3. \A d \in Client : key[d] \in Nat /\ key[d] <= fresh
        BY <1>1, <2>1 DEF Base, TypeOK, ClientOK
    <2>4. \A w \in Worker : work[w].at = "htua" =>
                work[w].m.key \in Nat /\ work[w].m.key <= fresh
        BY <1>1, <2>1, WorkTypes, PacketTypes DEF Base, WorkOK, PacketOK
    <2> QED  BY <2>2, <2>3, <2>4
<1>4. /\ \A m \in net : m.key # n
      /\ \A d \in Client : key[d] # n
      /\ \A w \in Worker : work[w].at = "htua" => work[w].m.key # n
    BY <1>1, <1>3
<1>5. sent[n] = <<>>
    <2>1. ~(n <= fresh)
        BY <1>1
    <2> QED  BY <1>1, <2>1 DEF Base, SentOK
<1> HIDE DEF n, a
<1>6. ASSUME NEW m \in net', m.type = "auth"
      PROVE  /\ sent'[m.key] = <<>>
             /\ \A d \in Client : key'[d] # m.key
             /\ \A p \in net' : p.type = "htua" => p.key # m.key
             /\ \A p \in net' : p.type = "auth" /\ p.key = m.key => p = m
             /\ \A w \in Worker : work'[w].at = "htua" => work'[w].m.key # m.key
    <2>1. CASE m \in net
        BY <1>1, <1>2, <1>4, <1>6, <2>1 DEF SerialParts, AuthFirst
    <2>2. CASE m = a
        BY <1>1, <1>2, <1>4, <1>5, <2>2
    <2> QED  BY <1>1, <2>1, <2>2
<1>7. AuthFirst'
    BY <1>6 DEF AuthFirst
<1>8. NextUnhandled'
    BY <1>1, UnhandledKept DEF SerialParts
<1> QED  BY <1>1, <1>7, <1>8 DEF SerialParts

LEMMA HtuaSerial ==
    ASSUME Base, SerialParts, NEW c \in Client, NEW m \in net, Htua(c, m)
    PROVE  SerialParts'
<1>1. /\ TypeOK /\ m.type = "htua"
      /\ UNCHANGED <<sent, work, store, handled, repeated>>
      /\ net' \subseteq net
      /\ \/ UNCHANGED key
         \/ m.key = auth[c] /\ key' = [key EXCEPT ![c] = auth[c]]
    BY DEF Base, Htua, Opens, Without, serverVars
<1>2. \A d \in Client : key'[d] = key[d] \/ m.key = key'[d]
    BY <1>1 DEF TypeOK
<1>3. AuthFirst'
    BY <1>1, <1>2, AuthFirstKept DEF SerialParts
<1>4. NextUnhandled'
    BY <1>1, UnhandledKept DEF SerialParts
<1> QED  BY <1>1, <1>3, <1>4 DEF SerialParts

\* A new packet has not been handled.
LEMMA SendSerial ==
    ASSUME Base, SerialParts, NEW c \in Client, Send(c)
    PROVE  SerialParts'
<1> DEFINE k == key[c]
           n == fresh + 1
           m == DataPacket(c, k, salt[c], n)
<1>1. /\ TypeOK /\ SentOK /\ fresh \in Nat /\ n \in Name
      /\ fresh' = n
      /\ UNCHANGED <<key, work, store, handled, repeated>>
    BY PlanFacts DEF Base, Send, serverVars
<1>2. CASE UNCHANGED <<net, sent>>
    <2>1. AuthFirst'
        BY <1>1, <1>2, AuthFirstKept DEF SerialParts
    <2>2. NextUnhandled'
        BY <1>1, <1>2, UnhandledKept DEF SerialParts
    <2> QED  BY <1>1, <2>1, <2>2 DEF SerialParts
<1>3. CASE net' = net \cup {m} /\ sent' = [sent EXCEPT ![k] = Append(@, n)]
    <2>1. k \in Name
        BY <1>1 DEF Send, TypeOK, Name, Name0, None
    <2>2. ChainFacts(sent', k, n)
        <3>1. Longer(sent', k, n)
            BY <1>3 DEF Longer
        <3> QED  BY <1>1, <2>1, <3>1, LongerChain
    <2>3. m.type = "data"
        BY DEF DataPacket, Msg
    <2>4. n \notin handled
        <3>1. \A p \in handled : p \in Nat /\ p <= fresh
            BY <1>1 DEF Base, TypeOK, Name
        <3> QED  BY <1>1, <3>1
    <2>5. \A p \in net : p.type = "auth" => p.key \in Name /\ p.key # k
        BY <1>1, PacketTypes DEF TypeOK, SerialParts, AuthFirst
    <2> HIDE DEF k, n, m
    <2>6. \A p \in net' : p.type = "auth" => p \in net /\ sent'[p.key] = sent[p.key]
        BY <1>3, <2>2, <2>3, <2>5 DEF ChainFacts
    <2>7. AuthFirst'
        <3>1. \A p \in net' : p.type = "htua" => p \in net
            BY <1>3, <2>3
        <3> QED  BY <1>1, <2>6, <3>1, AuthFirstKept DEF SerialParts
    <2>8. ASSUME NEW l \in Name, NEW i \in 1..Len(sent'[l])
          PROVE  \/ sent'[l][i] \notin handled
                 \/ /\ i \in 1..Len(sent[l]) /\ sent'[l][i] = sent[l][i]
                    /\ Before(sent', l, i) = Before(sent, l, i)
        <3>1. CASE i \in 1..Len(sent[l]) /\ sent'[l][i] = sent[l][i]
            <4>1. i \in 1..(Len(sent[l]) + 1)
                BY <1>1, <3>1, SentTypes
            <4> QED  BY <2>2, <3>1, <4>1 DEF ChainFacts
        <3>2. CASE sent'[l][i] = n
            BY <2>4, <3>2
        <3> QED  BY <2>2, <3>1, <3>2 DEF ChainFacts
    <2>9. ASSUME NEW s \in Name, store[s] # None, NEW i \in 1..Len(sent'[store[s]]),
                 Before(sent', store[s], i) = s
          PROVE  \/ sent'[store[s]][i] \notin handled
                 \/ \E w \in Worker : /\ work[w].at = "update"
                                      /\ work[w].m.new = sent'[store[s]][i]
        <3>1. store[s] \in Name
            BY <1>1, <2>9 DEF TypeOK, Name, Name0, None
        <3>2. CASE sent'[store[s]][i] \notin handled
            BY <3>2
        <3>3. CASE /\ i \in 1..Len(sent[store[s]]) /\ sent'[store[s]][i] = sent[store[s]][i]
                   /\ Before(sent', store[s], i) = Before(sent, store[s], i)
            BY <2>9, <3>3 DEF SerialParts, NextUnhandled
        <3> QED  BY <2>8, <3>1, <3>2, <3>3
    <2>10. ASSUME NEW w \in Worker, work[w].at = "update",
                  NEW i \in 1..Len(sent'[work[w].m.key]),
                  Before(sent', work[w].m.key, i) = work[w].m.new
           PROVE  sent'[work[w].m.key][i] \notin handled
        <3>1. work[w].m.key \in Name
            BY <2>10, HandledBefore
        <3> QED  BY <2>8, <2>10, <3>1 DEF SerialParts, NextUnhandled
    <2>11. NextUnhandled'
        <3>1. \A w \in Worker : work[w].at = "handle" => work[w].m.new \notin handled
            BY DEF SerialParts, NextUnhandled
        <3> QED  BY <1>1, <2>9, <2>10, <3>1 DEF NextUnhandled
    <2> QED  BY <1>1, <2>7, <2>11 DEF SerialParts
<1>4. \/ UNCHANGED <<net, sent>>
      \/ net' = net \cup {m} /\ sent' = [sent EXCEPT ![k] = Append(@, n)]
    BY <1>1 DEF Send, SendFails, SendThenWait
<1> QED  BY <1>2, <1>3, <1>4

\* The session that is registered has no packets, and there is no second copy of
\* the auth packet.
LEMMA AuthRegisterSerial ==
    ASSUME Base, Serial, SerialParts, NEW w \in Worker, NEW m \in net, AuthRegister(w, m)
    PROVE  SerialParts'
<1>1. /\ TypeOK /\ m \in Message /\ m.type = "auth" /\ m.key \in Name
      /\ m.salt = m.key /\ work[w].at = "idle"
      /\ UNCHANGED <<key, sent, handled, repeated>>
      /\ net' = net \ {m}
      /\ store' = [store EXCEPT ![m.salt] = m.key]
      /\ work' = [work EXCEPT ![w] = [at |-> "htua", m |-> m]]
    <2>1. ~plan.fails /\ "auth" \notin plan.dup
        BY DEF Serial
    <2>2. work[w].at = "idle"
        BY DEF AuthRegister, Idle
    <2> QED  BY <2>1, <2>2, PacketTypes
             DEF Base, TypeOK, AuthRegister, Without, PacketOK, clientVars
<1>2. /\ \A s \in Name : store'[s] = IF s = m.key THEN m.key ELSE store[s]
      /\ \A v \in Worker : v # w => work'[v] = work[v]
      /\ work'[w].at = "htua" /\ work'[w].m = m
    BY <1>1 DEF TypeOK
<1>3. /\ sent[m.key] = <<>>
      /\ \A p \in net : p.type = "auth" /\ p.key = m.key => p = m
    BY <1>1 DEF SerialParts, AuthFirst
<1>4. ASSUME NEW p \in net', p.type = "auth"
      PROVE  /\ sent[p.key] = <<>>
             /\ \A d \in Client : key[d] # p.key
             /\ \A q \in net' : q.type = "htua" => q.key # p.key
             /\ \A q \in net' : q.type = "auth" /\ q.key = p.key => q = p
             /\ \A v \in Worker : work'[v].at = "htua" => work'[v].m.key # p.key
    <2>1. p \in net /\ p # m
        BY <1>1
    <2>2. p.key # m.key
        BY <1>3, <1>4, <2>1
    <2> QED  BY <1>1, <1>2, <1>4, <2>1, <2>2 DEF SerialParts, AuthFirst
<1>5. AuthFirst'
    BY <1>1, <1>4 DEF AuthFirst
<1>6. ASSUME NEW s \in Name, store'[s] # None, NEW i \in 1..Len(sent[store'[s]]),
             Before(sent, store'[s], i) = s
      PROVE  \/ sent[store'[s]][i] \notin handled
             \/ \E v \in Worker : /\ work'[v].at = "update"
                                  /\ work'[v].m.new = sent[store'[s]][i]
    <2>1. CASE s = m.key
        <3>1. store'[s] = m.key
            BY <1>2, <2>1
        <3>2. Len(sent[m.key]) = 0
            BY <1>3
        <3> QED  BY <1>6, <3>1, <3>2
    <2>2. CASE s # m.key
        <3>1. store'[s] = store[s]
            BY <1>2, <2>2
        <3>2. \/ sent[store[s]][i] \notin handled
              \/ \E v \in Worker : /\ work[v].at = "update"
                                   /\ work[v].m.new = sent[store[s]][i]
            BY <1>6, <3>1 DEF SerialParts, NextUnhandled
        <3> QED  BY <1>1, <1>2, <3>1, <3>2
    <2> QED  BY <2>1, <2>2
<1>7. ASSUME NEW v \in Worker
      PROVE  /\ work'[v].at = "handle" => work'[v].m.new \notin handled
             /\ work'[v].at = "update" =>
                   \A i \in 1..Len(sent[work'[v].m.key]) :
                       Before(sent, work'[v].m.key, i) = work'[v].m.new =>
                           sent[work'[v].m.key][i] \notin handled
    BY <1>2 DEF SerialParts, NextUnhandled
<1>8. NextUnhandled'
    <2>1. sent' = sent /\ handled' = handled
        BY <1>1
    <2> QED  BY <1>6, <1>7, <2>1 DEF NextUnhandled
<1> QED  BY <1>1, <1>5, <1>8 DEF SerialParts

LEMMA AuthReplySerial ==
    ASSUME Base, SerialParts, NEW w \in Worker, AuthReply(w)
    PROVE  SerialParts'
<1>1. /\ TypeOK /\ work[w].at = "htua"
      /\ UNCHANGED <<key, sent, store, handled, repeated>>
      /\ net' \subseteq net \cup {HtuaPacket(work[w].m)}
      /\ work' = [work EXCEPT ![w] = Idle]
    BY DEF Base, AuthReply, clientVars
<1>2. \A v \in Worker : IF v = w THEN work'[v].at = "idle" ELSE work'[v] = work[v]
    BY <1>1 DEF TypeOK, Idle
<1>3. HtuaPacket(work[w].m).type = "htua" /\ HtuaPacket(work[w].m).key = work[w].m.key
    BY DEF HtuaPacket, Msg
<1>4. AuthFirst'
    BY <1>1, <1>2, <1>3, AuthFirstKept DEF SerialParts
<1>5. NextUnhandled'
    BY <1>1, <1>2, UnhandledKept DEF SerialParts
<1> QED  BY <1>1, <1>4, <1>5 DEF SerialParts

\* The packet that is looked up follows a salt in the store, and the worker, who
\* has just been idle, is not about to replace that salt.
LEMMA DataLookupSerial ==
    ASSUME Base, Serial, SerialParts, NEW w \in Worker, NEW m \in net, DataLookup(w, m)
    PROVE  SerialParts'
<1>1. /\ TypeOK /\ SentOK /\ m \in Message /\ m.type = "data" /\ PacketOK(sent, fresh, m)
      /\ m.key \in Name /\ m.salt \in Name /\ m.new \in Name
      /\ UNCHANGED <<key, sent, store, handled, repeated>>
      /\ net' \subseteq net
    BY PacketTypes DEF Base, TypeOK, DataLookup, Without, clientVars
<1>2. work[w].at = "idle" /\ w \in plan.workers
    BY DEF DataLookup, Idle
<1>3. CASE UNCHANGED work
    <2>1. AuthFirst'
        BY <1>1, <1>3, AuthFirstKept DEF SerialParts
    <2>2. NextUnhandled'
        BY <1>1, <1>3, UnhandledKept DEF SerialParts
    <2> QED  BY <1>1, <2>1, <2>2 DEF SerialParts
<1>4. CASE /\ Opens(m, store[m.salt])
           /\ work' = [work EXCEPT ![w] = [at |-> "handle", m |-> m]]
    <2>1. /\ \A v \in Worker : v # w => work'[v] = work[v]
          /\ work'[w].at = "handle" /\ work'[w].m = m
        BY <1>1, <1>4 DEF TypeOK
    <2>2. AuthFirst'
        BY <1>1, <2>1, AuthFirstKept DEF SerialParts
    <2>3. \A v \in Worker : work[v].at = "idle"
        BY <1>2, OneAtWork
    <2>4. m.new \notin handled
        <3>1. PICK i \in 1..Len(sent[m.key]) :
                    m.new = sent[m.key][i] /\ m.salt = Before(sent, m.key, i)
            BY <1>1 DEF PacketOK
        <3>2. store[m.salt] = m.key /\ store[m.salt] # None
            BY <1>1, <1>4 DEF Opens, Name, None
        <3> QED  BY <1>1, <2>3, <3>1, <3>2 DEF SerialParts, NextUnhandled
    <2>5. ASSUME NEW s \in Name, store[s] # None, NEW i \in 1..Len(sent[store[s]]),
                 Before(sent, store[s], i) = s
          PROVE  sent[store[s]][i] \notin handled
        BY <2>3, <2>5 DEF SerialParts, NextUnhandled
    <2>6. \A v \in Worker : /\ work'[v].at # "update"
                            /\ work'[v].at = "handle" => work'[v].m.new \notin handled
        BY <2>1, <2>3, <2>4
    <2>7. NextUnhandled'
        <3>1. store' = store /\ sent' = sent /\ handled' = handled
            BY <1>1
        <3> QED  BY <2>5, <2>6, <3>1 DEF NextUnhandled
    <2> QED  BY <1>1, <2>2, <2>7 DEF SerialParts
<1> QED  BY <1>3, <1>4 DEF DataLookup

\* The packet has not been handled before; the one after it has not either, since
\* no packet overtakes.
LEMMA DataHandleSerial ==
    ASSUME Base, Serial, SerialParts, NEW w \in Worker, DataHandle(w)
    PROVE  SerialParts'
<1> DEFINE m == work[w].m
<1>1. /\ TypeOK /\ SentOK /\ work[w].at = "handle"
      /\ UNCHANGED <<key, sent, store>>
      /\ handled' = handled \cup {m.new}
      /\ repeated' = IF m.new \in handled THEN repeated \cup {m.new} ELSE repeated
      /\ net' = net \cup {ReplyPacket(m)}
      /\ work' = [work EXCEPT ![w] = [at |-> "update", m |-> m]]
    BY DEF Base, DataHandle, clientVars, Serial
<1>2. m.new \notin handled
    BY <1>1 DEF SerialParts, NextUnhandled
<1>3. repeated' = {}
    BY <1>1, <1>2 DEF SerialParts
<1>4. /\ m.key \in Name /\ NotSent(sent, m.key)
      /\ PacketOK(sent, fresh, m) /\ m \in Message /\ m.type = "data"
      /\ w \in plan.workers
    BY <1>1, HandledBefore
<1>5. ReplyPacket(m).type = "reply"
    BY DEF ReplyPacket, Msg
<1> HIDE DEF m
<1>6. /\ \A v \in Worker : v # w => work'[v] = work[v]
      /\ work'[w].at = "update" /\ work'[w].m = m
    BY <1>1 DEF TypeOK
<1>7. \A v \in Worker : v # w => work[v].at = "idle"
    BY <1>4, OneAtWork
<1>8. AuthFirst'
    BY <1>1, <1>5, <1>6, AuthFirstKept DEF SerialParts
<1>9. ASSUME NEW s \in Name, store[s] # None, NEW i \in 1..Len(sent[store[s]]),
             Before(sent, store[s], i) = s
      PROVE  \/ sent[store[s]][i] \notin handled'
             \/ work'[w].at = "update" /\ work'[w].m.new = sent[store[s]][i]
    <2>1. sent[store[s]][i] \notin handled
        BY <1>1, <1>7, <1>9 DEF SerialParts, NextUnhandled
    <2> QED  BY <1>1, <1>6, <2>1
<1>10. ASSUME NEW i \in 1..Len(sent[m.key]), Before(sent, m.key, i) = m.new
       PROVE  sent[m.key][i] \notin handled'
    <2>1. PICK h \in 1..Len(sent[m.key]) :
                 /\ m.new = sent[m.key][h]
                 /\ h + 1 \in 1..(Len(sent[m.key]) + 1)
                 /\ Before(sent, m.key, h + 1) = m.new
        BY <1>1, <1>4, PlaceOf
    <2>2. i \in 1..(Len(sent[m.key]) + 1) /\ Len(sent[m.key]) \in Nat
        BY <1>1, <1>4, SentTypes
    <2>3. Before(sent, m.key, i) = Before(sent, m.key, h + 1)
        BY <1>10, <2>1
    <2>4. i = h + 1
        BY <1>1, <1>4, <2>1, <2>2, <2>3, BeforeIsUnique
    <2>5. sent[m.key][i] # m.new
        BY <1>1, <1>4, <2>1, <2>2, <2>4 DEF SentOK
    <2>6. sent[m.key][i] \notin handled
        <3>1. h \in 1..i
            BY <2>2, <2>4
        <3> QED  BY <1>2, <1>4, <2>1, <3>1 DEF Base, NoPacketOvertakes
    <2> QED  BY <1>1, <2>5, <2>6
<1>11. NextUnhandled'
    <2>1. store' = store /\ sent' = sent
        BY <1>1
    <2>2. \A v \in Worker : work'[v].at # "handle" /\ (work'[v].at = "update" => v = w)
        BY <1>6, <1>7
    <2> QED  BY <1>6, <1>9, <1>10, <2>1, <2>2 DEF NextUnhandled
<1> QED  BY <1>3, <1>8, <1>11 DEF SerialParts

\* The salt of the packet that was handled leaves the store.
LEMMA DataUpdateSerial ==
    ASSUME Base, Serial, SerialParts, NEW w \in Worker, DataUpdate(w)
    PROVE  SerialParts'
<1> DEFINE m == work[w].m
<1>1. /\ TypeOK /\ SentOK /\ work[w].at = "update"
      /\ UNCHANGED <<net, key, sent, handled, repeated>>
      /\ work' = [work EXCEPT ![w] = Idle]
    BY DEF Base, DataUpdate, clientVars
<1>2. \A s \in Name : store'[s] = IF s = m.new THEN m.key
                                  ELSE IF s = m.salt THEN None ELSE store[s]
    BY DataUpdateBase
<1>3. /\ m.key \in Name /\ w \in plan.workers
      /\ PacketOK(sent, fresh, m) /\ m.type = "data"
    BY <1>1, HandledBefore
<1>4. \A i \in 1..Len(sent[m.key]) :
            Before(sent, m.key, i) = m.new => sent[m.key][i] \notin handled
    BY <1>1 DEF SerialParts, NextUnhandled
<1>5. \A v \in Worker : v = w => work[v].m = m
    OBVIOUS
<1> HIDE DEF m
<1>6. \A v \in Worker : IF v = w THEN work'[v].at = "idle" ELSE work'[v] = work[v]
    BY <1>1 DEF TypeOK, Idle
<1>7. \A v \in Worker : v # w => work[v].at = "idle"
    BY <1>3, OneAtWork
<1>8. AuthFirst'
    BY <1>1, <1>6, AuthFirstKept DEF SerialParts
<1>9. ASSUME NEW s \in Name, store'[s] # None, NEW i \in 1..Len(sent[store'[s]]),
             Before(sent, store'[s], i) = s
      PROVE  sent[store'[s]][i] \notin handled
    <2>1. CASE s = m.new
        <3>1. store'[s] = m.key
            BY <1>2, <2>1
        <3> QED  BY <1>4, <1>9, <2>1, <3>1
    <2>2. CASE s # m.new
        <3>1. store'[s] = store[s] /\ s # m.salt
            BY <1>2, <1>9, <2>2
        <3>2. /\ store[s] \in Name /\ store[s] # None
              /\ i \in 1..Len(sent[store[s]]) /\ Before(sent, store[s], i) = s
            <4>1. store[s] # None
                BY <1>9, <3>1
            <4>2. store[s] \in Name0
                BY <1>1 DEF TypeOK
            <4>3. store[s] \in Name
                BY <4>1, <4>2, SessionAssumption DEF Name, Name0, None
            <4> QED  BY <1>9, <3>1, <4>1, <4>3
        <3>3. sent[store[s]][i] # m.new
            <4> SUFFICES ASSUME sent[store[s]][i] = m.new PROVE FALSE
                OBVIOUS
            <4>1. PICK h \in 1..Len(sent[m.key]) :
                    m.new = sent[m.key][h] /\ m.salt = Before(sent, m.key, h)
                BY <1>3 DEF PacketOK
            <4>2. store[s] = m.key /\ i = h
                BY <1>1, <1>3, <3>2, <4>1 DEF SentOK
            <4> QED  BY <3>1, <3>2, <4>1, <4>2
        <3>4. \/ sent[store[s]][i] \notin handled
              \/ \E v \in Worker : /\ work[v].at = "update"
                                   /\ work[v].m.new = sent[store[s]][i]
            BY <3>2 DEF SerialParts, NextUnhandled
        <3> QED  BY <1>5, <1>7, <3>1, <3>3, <3>4
    <2> QED  BY <2>1, <2>2
<1>10. NextUnhandled'
    <2>1. sent' = sent /\ handled' = handled
        BY <1>1
    <2>2. \A v \in Worker : work'[v].at = "idle"
        BY <1>6, <1>7
    <2> QED  BY <1>9, <2>1, <2>2 DEF NextUnhandled
<1> QED  BY <1>1, <1>8, <1>10 DEF SerialParts

-----------------------------------------------------------------------------
(* The theorems.                                                           *)

LEMMA InitInv ==
    ASSUME Init
    PROVE  Inv
<1>1. Base
    BY InitBase
<1>2. /\ net = {} /\ handled = {} /\ repeated = {}
      /\ \A c \in Client : phase[c] = "idle" /\ key[c] = None
      /\ \A w \in Worker : work[w].at = "idle"
    BY DEF Init, Idle
<1>3. Registered /\ InStep
    BY <1>2 DEF Registered, RegisteredAt, InStep
<1>4. AuthFirst /\ NextUnhandled
    BY <1>2 DEF AuthFirst, NextUnhandled
<1> QED  BY <1>1, <1>2, <1>3, <1>4 DEF Inv, SerialOK, SerialParts

\* Each action keeps the client and the store in step.
LEMMA NextSteps ==
    ASSUME Base, Registered, InStep, [Next]_vars
    PROVE  Registered' /\ InStep'
<1>1. CASE \E m \in net : Lose(m) \/ HelloHandler(m)
    BY <1>1, LosingActions, LosingSteps
<1>2. CASE \E c \in Client : Hello(c) \/ Auth(c) \/ Send(c) \/ Answer(c) \/ GiveUp(c)
    <2>1. CASE \E c \in Client : Hello(c) \/ GiveUp(c)
        BY <2>1, LosingActions, LosingSteps
    <2>2. CASE \E c \in Client, m \in net : Olleh(c, m) \/ Recv(c, m)
        BY <2>2, LosingActions, LosingSteps
    <2>3. CASE \E c \in Client : Auth(c)
        BY <2>3, AuthSteps
    <2>4. CASE \E c \in Client : Send(c)
        BY <2>4, SendSteps
    <2>5. CASE \E c \in Client, m \in net : Htua(c, m)
        BY <2>5, HtuaSteps
    <2> QED  BY <1>2, <2>1, <2>2, <2>3, <2>4, <2>5 DEF Answer
<1>3. CASE \E w \in Worker : Serve(w)
    BY <1>3, AuthRegisterSteps, AuthReplySteps, DataLookupSteps, DataHandleSteps,
       DataUpdateSteps
       DEF Serve
<1>4. CASE UNCHANGED vars
    BY <1>4, LosingSteps DEF vars, clientVars, serverVars, Losing
<1> QED  BY <1>1, <1>2, <1>3, <1>4 DEF Next

\* Each action of a plan with one worker keeps packets from being repeated.
LEMMA NextSerial ==
    ASSUME Base, Serial, SerialParts, [Next]_vars
    PROVE  SerialParts'
<1>1. CASE \E m \in net : Lose(m) \/ HelloHandler(m)
    BY <1>1, LosingActionsSerial
<1>2. CASE \E c \in Client : Hello(c) \/ Auth(c) \/ Send(c) \/ Answer(c) \/ GiveUp(c)
    <2>1. CASE \E c \in Client : Hello(c) \/ GiveUp(c)
        BY <2>1, LosingActionsSerial
    <2>2. CASE \E c \in Client, m \in net : Olleh(c, m) \/ Recv(c, m)
        BY <2>2, LosingActionsSerial
    <2>3. CASE \E c \in Client : Auth(c)
        BY <2>3, AuthSerial
    <2>4. CASE \E c \in Client : Send(c)
        BY <2>4, SendSerial
    <2>5. CASE \E c \in Client, m \in net : Htua(c, m)
        BY <2>5, HtuaSerial
    <2> QED  BY <1>2, <2>1, <2>2, <2>3, <2>4, <2>5 DEF Answer
<1>3. CASE \E w \in Worker : Serve(w)
    BY <1>3, AuthRegisterSerial, AuthReplySerial, DataLookupSerial, DataHandleSerial,
       DataUpdateSerial
       DEF Serve
<1>4. CASE UNCHANGED vars
    BY <1>4, LosingSerial DEF vars, clientVars, serverVars, Losing
<1> QED  BY <1>1, <1>2, <1>3, <1>4 DEF Next

\* What happens is planned at the start.
LEMMA PlanStays ==
    ASSUME [Next]_vars
    PROVE  plan' = plan
BY DEF Next, vars, Lose, HelloHandler, Hello, Auth, Send, Answer, Olleh, Htua, Recv,
       GiveUp, Serve, AuthRegister, AuthReply, DataLookup, DataHandle, DataUpdate

\* The sessions always satisfy the inductive invariant.
THEOREM SessionInvariant == Spec => []Inv
<1>1. Inv /\ [Next]_vars => Inv'
    <2> SUFFICES ASSUME Inv, [Next]_vars PROVE Inv'
        OBVIOUS
    <2>1. Base'
        BY NextBase DEF Inv
    <2>2. Registered' /\ InStep'
        BY NextSteps DEF Inv
    <2>3. SerialOK'
        <3>1. Serial' => Serial
            BY PlanStays DEF Serial
        <3> QED  BY <3>1, NextSerial DEF Inv, SerialOK
    <2> QED  BY <2>1, <2>2, <2>3 DEF Inv
<1> QED  BY <1>1, InitInv, PTL DEF Spec

\* Every variable has its type.
THEOREM SessionTypeCorrect == Spec => []TypeOK
<1>1. Inv => TypeOK
    BY DEF Inv, Base
<1> QED  BY <1>1, SessionInvariant, PTL

\* However datagrams are lost, duplicated and reordered, and however many workers
\* serve, handle_data_cb_ gets no packet before the earlier ones of its session.
THEOREM SessionNoPacketOvertakes == Spec => []NoPacketOvertakes
<1>1. Inv => NoPacketOvertakes
    BY DEF Inv, Base
<1> QED  BY <1>1, SessionInvariant, PTL

\* my_salt_ of a data_cli is in the session store, or the packet that puts it
\* there is on its way or in the hands of a worker, unless a packet was lost.
THEOREM SessionInStep == Spec => []InStep
<1>1. Inv => InStep
    BY DEF Inv
<1> QED  BY <1>1, SessionInvariant, PTL

\* A single worker hands no packet to handle_data_cb_ twice, if auth packets are
\* not duplicated and callbacks do not fail.
THEOREM SessionSerialAtMostOnce == Spec => []SerialAtMostOnce
<1>1. Inv => SerialAtMostOnce
    BY DEF Inv, SerialOK, SerialParts, Serial, SerialAtMostOnce
<1> QED  BY <1>1, SessionInvariant, PTL
=============================================================================
