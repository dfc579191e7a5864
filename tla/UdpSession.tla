------------------------------ MODULE UdpSession -----------------------------
(***************************************************************************)
(* The three UDP exchanges of comm/: hello (the client learns the server's *)
(* public key), auth (the client registers a session key under a salt) and *)
(* data (every packet names the session by a salt and carries, encrypted,  *)
(* the salt of the next packet).  Clients are hello_cli, auth_cli and      *)
(* data_cli used one after the other, as the tests do; the servers' worker *)
(* threads run hello_handler, auth_handler and data_handler; the session   *)
(* store is that of test/comm/t__udp_data_server.cc, the only one that the *)
(* repository has for the handlers' callbacks.                             *)
(*                                                                         *)
(* Datagrams may be reordered, and lost or duplicated if the plan says so. *)
(* A salt or a session key is a number that was never generated before: an *)
(* auth() has one for its salt and its key, a data packet one for its new  *)
(* salt, which also names the packet.  A packet opens only under the key   *)
(* it was made with (sec/crypt_pkt.cc).  Equal hellos in transit count as  *)
(* one.  The server's own salt, which no code reads, is left out.          *)
(***************************************************************************)
EXTENDS Naturals, Sequences, FiniteSets

CONSTANTS Client,     \* clients, each with its three sockets
          Worker,     \* worker threads of the servers
          MaxFresh,   \* bound on the numbers generated in one run
          Plans       \* what may happen

Types == {"hello", "olleh", "auth", "htua", "data", "reply"}

\* A plan: datagrams may be lost; the types that may be duplicated; callbacks and
\* sendto() may fail; clients wait for every answer; workers that serve; a bound
\* on the numbers generated.
Plan == [loss : BOOLEAN, dup : SUBSET Types, fails : BOOLEAN, patient : BOOLEAN,
         workers : SUBSET Worker, limit : 0..MaxFresh]

ASSUME SessionAssumption ==
    /\ IsFiniteSet(Worker)
    /\ MaxFresh \in Nat
    /\ Plans \subseteq Plan

VARIABLES net,       \* datagrams in transit or in a socket's queue
          fresh,     \* numbers generated so far
          phase,     \* the call each client is in
          ok,        \* whether its last call succeeded
          knows,     \* it has the server's public key
          auth,      \* auth_cli's my_salt_ and session_key_
          salt,      \* data_cli's my_salt_
          key,       \* data_cli's session_key_
          work,      \* what each worker does
          store,     \* SessionStore::m_, from salts to session keys
          sent,      \* packets sent in each session (not in the code)
          handled,   \* packets that handle_data_cb_ got (not in the code)
          repeated,  \* those it got more than once (not in the code)
          gone,      \* sessions of which a packet was lost (not in the code)
          plan

clientVars == <<phase, ok, knows, auth, salt, key, sent>>
serverVars == <<work, store, handled, repeated>>
vars == <<net, fresh, clientVars, serverVars, gone, plan>>

Name == 1..MaxFresh
None == 0
Name0 == 0..MaxFresh

\* A packet: salt is in its clear head, new in the part that key opens.
Msg(type, c, k, old, new) ==
    [type |-> type, client |-> c, key |-> k, salt |-> old, new |-> new]

HelloPacket(c) == Msg("hello", c, None, None, None)
OllehPacket(c) == Msg("olleh", c, None, None, None)
AuthPacket(c, name) == Msg("auth", c, name, name, None)
HtuaPacket(m) == Msg("htua", m.client, m.key, None, None)
DataPacket(c, k, old, new) == Msg("data", c, k, old, new)
ReplyPacket(m) == Msg("reply", m.client, m.key, m.salt, m.new)

\* The packet can be decrypted with session key k.
Opens(m, k) == m.key = k

Idle == [at |-> "idle"]

Init ==
    /\ net = {} /\ fresh = 0
    /\ phase = [c \in Client |-> "idle"]
    /\ ok = [c \in Client |-> TRUE]
    /\ knows = [c \in Client |-> FALSE]
    /\ auth = [c \in Client |-> None]
    /\ salt = [c \in Client |-> None]
    /\ key = [c \in Client |-> None]
    /\ work = [w \in Worker |-> Idle]
    /\ store = [s \in Name |-> None]
    /\ sent = [k \in Name |-> <<>>]
    /\ handled = {} /\ repeated = {}
    /\ gone = {}
    /\ plan \in Plans

-----------------------------------------------------------------------------
\* The network (external).

\* What is left when m has been received.
Without(m) == IF m.type \in plan.dup THEN net ELSE net \ {m}

Lose(m) ==
    /\ plan.loss
    /\ net' = net \ {m}
    /\ gone' = IF m.type = "data" THEN gone \cup {m.key} ELSE gone
    /\ UNCHANGED <<fresh, clientVars, serverVars, plan>>

-----------------------------------------------------------------------------
\* A client.

\* send() fails: the call returns false and nothing is on its way.
SendFails(c) ==
    /\ plan.fails
    /\ ok' = [ok EXCEPT ![c] = FALSE]
    /\ UNCHANGED <<net, phase>>

\* send() works and the call goes on to select().
SendThenWait(c, call, m) ==
    /\ net' = net \cup {m}
    /\ phase' = [phase EXCEPT ![c] = call]
    /\ UNCHANGED ok

\* hello_cli::hello() up to select()
Hello(c) ==
    /\ phase[c] = "idle"
    /\ SendFails(c) \/ SendThenWait(c, "hello", HelloPacket(c))
    /\ UNCHANGED <<fresh, knows, auth, salt, key, sent, serverVars, gone, plan>>

\* hello() receives an olleh packet: server_public_key_ is set.
Olleh(c, m) ==
    /\ phase[c] = "hello"
    /\ m.type = "olleh" /\ m.client = c
    /\ net' = Without(m)
    /\ phase' = [phase EXCEPT ![c] = "idle"]
    /\ ok' = [ok EXCEPT ![c] = TRUE]
    /\ knows' = [knows EXCEPT ![c] = TRUE]
    /\ UNCHANGED <<fresh, auth, salt, key, sent, serverVars, gone, plan>>

\* auth_cli::auth() up to select(): a new salt and a new session key.
Auth(c) ==
    /\ phase[c] = "idle"
    /\ knows[c]
    /\ fresh < plan.limit
    /\ fresh' = fresh + 1
    /\ auth' = [auth EXCEPT ![c] = fresh']
    /\ SendFails(c) \/ SendThenWait(c, "auth", AuthPacket(c, fresh'))
    /\ UNCHANGED <<knows, salt, key, sent, serverVars, gone, plan>>

\* auth() receives a htua packet.  One that answers an earlier auth() does not
\* open under the new key, and auth() fails.  After a success the user gives
\* salt and key to data_cli.
Htua(c, m) ==
    /\ phase[c] = "auth"
    /\ m.type = "htua" /\ m.client = c
    /\ net' = Without(m)
    /\ phase' = [phase EXCEPT ![c] = "idle"]
    /\ ok' = [ok EXCEPT ![c] = Opens(m, auth[c])]
    /\ \/ /\ Opens(m, auth[c])
          /\ salt' = [salt EXCEPT ![c] = auth[c]]
          /\ key' = [key EXCEPT ![c] = auth[c]]
       \/ ~Opens(m, auth[c]) /\ UNCHANGED <<salt, key>>
    /\ UNCHANGED <<fresh, knows, auth, sent, serverVars, gone, plan>>

\* data_cli::send(); recv() may be called next.  Once sent, my_salt_ moves on
\* whether the packet arrives or not.
Send(c) ==
    /\ phase[c] = "idle"
    /\ key[c] # None
    /\ fresh < plan.limit
    /\ fresh' = fresh + 1
    /\ \/ SendFails(c) /\ UNCHANGED <<salt, sent>>
       \/ /\ \E call \in {"recv"} \cup (IF plan.patient THEN {} ELSE {"idle"}) :
                SendThenWait(c, call, DataPacket(c, key[c], salt[c], fresh'))
          /\ salt' = [salt EXCEPT ![c] = fresh']
          /\ sent' = [sent EXCEPT ![key[c]] = Append(@, fresh')]
    /\ UNCHANGED <<knows, auth, key, serverVars, gone, plan>>

\* data_cli::recv() of a reply, which need not be to the last packet sent
Recv(c, m) ==
    /\ phase[c] = "recv"
    /\ m.type = "reply" /\ m.client = c
    /\ net' = Without(m)
    /\ phase' = [phase EXCEPT ![c] = "idle"]
    /\ ok' = [ok EXCEPT ![c] = Opens(m, key[c])]
    /\ UNCHANGED <<fresh, knows, auth, salt, key, sent, serverVars, gone, plan>>

\* select() in hello(), auth() or recv() times out.  The answer may still come
\* and waits in the socket for the next call.
GiveUp(c) ==
    /\ ~plan.patient
    /\ phase[c] # "idle"
    /\ phase' = [phase EXCEPT ![c] = "idle"]
    /\ ok' = [ok EXCEPT ![c] = FALSE]
    /\ UNCHANGED <<net, fresh, knows, auth, salt, key, sent, serverVars, gone, plan>>

-----------------------------------------------------------------------------
\* The servers.  A packet that a worker has popped and not looked at is still in
\* net; UdpRecvr has the way from the socket to the worker.

\* hello_handler: the answer is made from the packet alone, or a callback says no.
HelloHandler(m) ==
    /\ m.type = "hello"
    /\ \/ net' = Without(m) \cup {OllehPacket(m.client)}
       \/ plan.fails /\ net' = Without(m)
    /\ UNCHANGED <<fresh, clientVars, serverVars, gone, plan>>

\* Mutant: the answer is sent although the session was not registered.
AuthRegisterNot(w, m) ==
    /\ work[w] = Idle /\ w \in plan.workers
    /\ m.type = "auth"
    /\ net' = Without(m)
    /\ work' = [work EXCEPT ![w] = [at |-> "htua", m |-> m]]
    /\ UNCHANGED <<fresh, clientVars, store, handled, repeated, gone, plan>>

\* auth_handler up to register_auth_cb_, or a callback says no.
AuthRegister(w, m) ==
    /\ work[w] = Idle /\ w \in plan.workers
    /\ m.type = "auth"
    /\ net' = Without(m)
    /\ \/ /\ store' = [store EXCEPT ![m.salt] = m.key]
          /\ work' = [work EXCEPT ![w] = [at |-> "htua", m |-> m]]
       \/ plan.fails /\ UNCHANGED <<store, work>>
    /\ UNCHANGED <<fresh, clientVars, handled, repeated, gone, plan>>

\* prepare_htua() and sendto(), which may fail: the session stays registered.
AuthReply(w) ==
    /\ work[w].at = "htua"
    /\ \/ net' = net \cup {HtuaPacket(work[w].m)}
       \/ plan.fails /\ UNCHANGED net
    /\ work' = [work EXCEPT ![w] = Idle]
    /\ UNCHANGED <<fresh, clientVars, store, handled, repeated, gone, plan>>

\* Mutant: the new salt is registered before the data is handled.
DataLookupRegisters(w, m) ==
    /\ work[w] = Idle /\ w \in plan.workers
    /\ m.type = "data"
    /\ Opens(m, store[m.salt])
    /\ net' = Without(m)
    /\ store' = [store EXCEPT ![m.salt] = None, ![m.new] = m.key]
    /\ work' = [work EXCEPT ![w] = [at |-> "handle", m |-> m]]
    /\ UNCHANGED <<fresh, clientVars, handled, repeated, gone, plan>>

\* data_handler: get_salt(), lookup_session_cb_, init_data().  A packet whose
\* salt is not in the store is dropped.
DataLookup(w, m) ==
    /\ work[w] = Idle /\ w \in plan.workers
    /\ m.type = "data"
    /\ net' = Without(m)
    /\ \/ /\ Opens(m, store[m.salt])
          /\ work' = [work EXCEPT ![w] = [at |-> "handle", m |-> m]]
          /\ UNCHANGED gone
       \/ /\ ~Opens(m, store[m.salt])
          /\ gone' = gone \cup {m.key}
          /\ UNCHANGED work
    /\ UNCHANGED <<fresh, clientVars, store, handled, repeated, plan>>

\* handle_data_cb_, with its send_reply().  If that fails the salt stays.
DataHandle(w) ==
    /\ work[w].at = "handle"
    /\ LET m == work[w].m IN
          /\ handled' = handled \cup {m.new}
          /\ repeated' = IF m.new \in handled THEN repeated \cup {m.new} ELSE repeated
          /\ \/ /\ net' = net \cup {ReplyPacket(m)}
                /\ work' = [work EXCEPT ![w] = [at |-> "update", m |-> m]]
                /\ UNCHANGED gone
             \/ /\ plan.fails
                /\ work' = [work EXCEPT ![w] = Idle]
                /\ gone' = gone \cup {m.key}
                /\ UNCHANGED net
    /\ UNCHANGED <<fresh, clientVars, store, plan>>

\* Mutant: the old salt stays in the store.
DataUpdateKeeps(w) ==
    /\ work[w].at = "update"
    /\ LET m == work[w].m
       IN  store' = [store EXCEPT ![m.new] = m.key]
    /\ work' = [work EXCEPT ![w] = Idle]
    /\ UNCHANGED <<net, fresh, clientVars, handled, repeated, gone, plan>>

\* Mutant: the new salt is not registered.
DataUpdateErases(w) ==
    /\ work[w].at = "update"
    /\ LET m == work[w].m
       IN  store' = [store EXCEPT ![m.salt] = None]
    /\ work' = [work EXCEPT ![w] = Idle]
    /\ UNCHANGED <<net, fresh, clientVars, handled, repeated, gone, plan>>

\* update_session_cb_: the new salt takes the place of the old one.
DataUpdate(w) ==
    /\ work[w].at = "update"
    /\ LET m == work[w].m
       IN  store' = [store EXCEPT ![m.salt] = None, ![m.new] = m.key]
    /\ work' = [work EXCEPT ![w] = Idle]
    /\ UNCHANGED <<net, fresh, clientVars, handled, repeated, gone, plan>>

-----------------------------------------------------------------------------
Answer(c) == \E m \in net : Olleh(c, m) \/ Htua(c, m) \/ Recv(c, m)

Serve(w) ==
    \/ \E m \in net : AuthRegister(w, m) \/ DataLookup(w, m)
    \/ AuthReply(w) \/ DataHandle(w) \/ DataUpdate(w)

Next ==
    \/ \E m \in net : Lose(m) \/ HelloHandler(m)
    \/ \E c \in Client : Hello(c) \/ Auth(c) \/ Send(c) \/ Answer(c) \/ GiveUp(c)
    \/ \E w \in Worker : Serve(w)

\* Workers are scheduled, and a client that waits reads what arrives.
Fairness ==
    /\ WF_vars(\E m \in net : HelloHandler(m))
    /\ \A c \in Client : WF_vars(Answer(c))
    /\ \A w \in Worker : WF_vars(Serve(w))

Spec == Init /\ [][Next]_vars /\ Fairness

-----------------------------------------------------------------------------
(* Properties.                                                             *)

Message ==
    [type : {"hello", "olleh"}, client : Client, key : {None}, salt : {None}, new : {None}]
    \cup [type : {"auth"}, client : Client, key : Name, salt : Name, new : {None}]
    \cup [type : {"htua"}, client : Client, key : Name, salt : {None}, new : {None}]
    \cup [type : {"data", "reply"}, client : Client, key : Name, salt : Name, new : Name]

\* Every variable has its type: a packet has the keys and salts of its kind.
TypeOK ==
    /\ net \subseteq Message /\ fresh \in Name0
    /\ phase \in [Client -> {"idle", "hello", "auth", "recv"}]
    /\ ok \in [Client -> BOOLEAN] /\ knows \in [Client -> BOOLEAN]
    /\ auth \in [Client -> Name0]
    /\ salt \in [Client -> Name0] /\ key \in [Client -> Name0]
    /\ work \in [Worker -> {Idle} \cup [at : {"htua", "handle", "update"}, m : Message]]
    /\ store \in [Name -> Name0]
    /\ sent \in [Name -> Seq(Name)]
    /\ handled \subseteq Name /\ repeated \subseteq handled
    /\ gone \subseteq Name
    /\ plan \in Plans

\* Whatever is lost, duplicated, reordered or handled by several workers at once,
\* a packet is handled only after all earlier ones of its session: its salt is
\* registered when its predecessor has been handled, not before.
NoPacketOvertakes ==
    \A k \in Name : \A i \in 1..Len(sent[k]) :
        sent[k][i] \in handled => \A j \in 1..i : sent[k][j] \in handled

\* With a single worker the salts also keep a duplicated packet from being
\* handled twice, unless the auth packet is duplicated or a reply fails.
SerialAtMostOnce ==
    (Cardinality(plan.workers) = 1 /\ "auth" \notin plan.dup /\ ~plan.fails) =>
        repeated = {}

\* Client and server agree on the next salt, or are about to: it is in the
\* store, or the packet that announces it is on its way or being handled; except
\* when a packet of the session was lost or dropped.
InStep ==
    \A c \in Client :
        (key[c] # None /\ key[c] \notin gone) =>
            \/ store[salt[c]] = key[c]
            \/ \E m \in net : m.type = "data" /\ m.new = salt[c]
            \/ \E w \in Worker : /\ work[w].at \in {"handle", "update"}
                                 /\ work[w].m.new = salt[c]

\* Nothing is lost, duplicated or refused, and the clients wait for answers.
Fine == plan.patient /\ ~plan.loss /\ ~plan.fails /\ plan.dup = {}

\* test/comm/t__udp_data_client.cc asserts that send() and recv() succeed time
\* after time: if all goes well every call of a client succeeds.
Served ==
    \A c \in Client : (Fine /\ phase[c] # "idle") ~> (phase[c] = "idle" /\ ok[c])

\* It does if there is one worker only, who registers the new salt before it
\* looks at the next packet, although it answers first.
SerialServed ==
    \A c \in Client :
        (Fine /\ Cardinality(plan.workers) = 1 /\ phase[c] # "idle")
            ~> (phase[c] = "idle" /\ ok[c])
=============================================================================
