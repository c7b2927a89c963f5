---------------------------- MODULE EvalBootstrap ---------------------------
(***************************************************************************)
(* An evaluation on many machines: EvalServer keeps the registered nodes   *)
(* and turns what its operator types into messages; every EvalClient turns *)
(* these messages into a peer manager of its own, again and again.  Nobody *)
(* acknowledges or repeats anything, and AsyncTCPServer is AsyncUDPServer  *)
(* in the build: datagrams that get lost and overtake each other.          *)
(*                                                                         *)
(* A client stands for its address, ip and ports.  Every "config" names a  *)
(* new run.  The broadcast itself and the tables it needs are the matter   *)
(* of other modules: here it leaves rows in logs.                          *)
(***************************************************************************)
EXTENDS NodeIds

CONSTANTS
    Clients,      \* the machines
    Configs,      \* what is entered at "config", in turn: types and shapes
    PageSize,     \* entries to a page of the node list (2000)
    LogPage,      \* lines to a page of a log (200)
    Budgets,      \* bounds: a behaviour has as many starts, commands of each
                  \* kind and datagrams lost or overtaken as one of these says
    MaxLag,       \* bound: datagrams a client may be behind at a command
    RowsSent      \* rows one broadcast leaves in its sender's log

EvalTypes == {"hgfr", "eth"}

\* A null pointer, and no configuration: unlike any record of those.
Nothing == [run |-> 0]

ASSUME BootstrapAssumption ==
    /\ Configs \in Seq(Range(Configs))
    /\ \A i \in DOMAIN Configs :
        Configs[i].type \in EvalTypes /\ IsShape(Configs[i].shape)
    /\ PageSize \in Nat \ {0} /\ LogPage \in Nat \ {0}
    /\ Budgets \subseteq
        [{"start", "config", "table", "BROADCAST", "PULL_LOG", "trouble"} -> Nat]
    /\ \A b \in Budgets : b.config <= Len(Configs)
    /\ MaxLag \in Nat /\ RowsSent \in Nat

VARIABLES
    db,            \* the server's db_: entry i + 1 is the address of node id i
    runs,          \* how many of Configs were entered; the last is eval_config_
    filed,         \* the server's log files, by run and node id
    on,            \* clients whose process runs
    hung,          \* clients whose handler thread is in a draw that never ends
    eval_config_,  \* eval_config_[c]: the client's configuration, or Nothing
    node_list_,    \* node_list_[c]: id string -> address
    managers,      \* managers[c][t]: peer_manager_ or peer_manager_eth_
    port,          \* port[c]: the manager whose server is bound to the port
    log,           \* log[c]: the client's csv files, by run and node id
    down, up,      \* datagrams on the way to a client, and to the server
    left           \* what is left of the budget

serverVars == <<db, runs, filed>>
clientVars == <<on, hung, eval_config_, node_list_, managers, port, log>>

\* History: what properties ask for and no code looks at.
VARIABLES
    told,        \* told[c]: "config" or "table" once these were sent to it
    disturbed,   \* clients a datagram of which was lost or overtaken
    hasty,       \* clients that were given orders before they were told all
    refused,     \* clients that could not follow an order
    pulled       \* pulled[c]: what c has uploaded, by run and node id

history == <<told, disturbed, hasty, refused, pulled>>
vars == <<serverVars, clientVars, down, up, left, history>>

-----------------------------------------------------------------------------
Spend(what) == left[what] > 0 /\ left' = [left EXCEPT ![what] = @ - 1]

Empty == [k \in {} |-> <<>>]

\* The rows of a file, none if it does not exist.
Rows(files, key) == IF key \in DOMAIN files THEN files[key] ELSE <<>>

Write(files, key, rows) ==
    [k \in DOMAIN files \cup {key} |->
        IF k = key THEN Rows(files, key) \o rows ELSE files[k]]

\* The current manager of a client, whichever pointer holds it.
HasManager(c) == \E t \in EvalTypes : managers[c][t] # Nothing

Addresses == ToSet(db)

\* Iterating db_ gives the newest entry first (libstdc++, up to 13 entries);
\* these are the ids in that order.
Iteration == [i \in 1 .. Len(db) |-> Len(db) - i]

\* The ids under which a client is registered, in that order: the k-th of them
\* is followed by all but the k - 1 newer ones.
RecordsOf(c) ==
    LET ids == {id \in 0 .. Len(db) - 1 : db[id + 1] = c}
    IN  [k \in 1 .. Cardinality(ids) |->
            CHOOSE id \in ids : Cardinality({newer \in ids : newer > id}) = k - 1]

-----------------------------------------------------------------------------
(***************************************************************************)
(* The client's process.                                                   *)
(***************************************************************************)

\* main, run and send_init.
Start(c) ==
    /\ c \notin on /\ Spend("start")
    /\ on' = on \cup {c}
    /\ up' = [up EXCEPT ![c] = Append(@, [kind |-> "INIT"])]
    /\ hasty' = IF \E i \in DOMAIN down[c] : down[c][i].kind \in {"BROADCAST", "PULL_LOG"}
                THEN hasty \cup {c} ELSE hasty
    /\ UNCHANGED <<serverVars, hung, eval_config_, node_list_, managers, port, log,
                   down, told, disturbed, refused, pulled>>

\* The process ends, and with it all its memory; its files stay.
Ends(c) ==
    /\ on' = on \ {c} /\ hung' = hung \ {c}
    /\ eval_config_' = [eval_config_ EXCEPT ![c] = Nothing]
    /\ node_list_' = [node_list_ EXCEPT ![c] = Empty]
    /\ managers' = [managers EXCEPT ![c] = [t \in EvalTypes |-> Nothing]]
    /\ port' = [port EXCEPT ![c] = Nothing]
    /\ told' = [told EXCEPT ![c] = "nothing"]
    /\ UNCHANGED log

Crash(c) ==
    /\ c \in on
    /\ Ends(c)
    /\ UNCHANGED <<serverVars, down, up, left, disturbed, hasty, refused, pulled>>

\* The handler thread takes the first datagram of the client's socket.
Takes(c, kind) ==
    /\ c \in on \ hung
    /\ down[c] # <<>> /\ Head(down[c]).kind = kind
    /\ down' = [down EXCEPT ![c] = Tail(@)]

\* A mutant: the manager that ran is kept.
ResetKeeps(c) == managers[c]

\* The pointer that belongs to the old configuration is reset.
Reset(c) ==
    IF eval_config_[c] = Nothing THEN managers[c]
    ELSE [managers[c] EXCEPT ![eval_config_[c].type] = Nothing]

HandleConfig(c) ==
    /\ Takes(c, "CONFIG")
    /\ LET m == Head(down[c])
       IN  eval_config_' = [eval_config_ EXCEPT ![c] =
               [run |-> m.run, type |-> m.type, shape |-> m.shape,
                str_node_id |-> convert_ID_int_to_string(m.node_id, m.shape)]]
    /\ managers' = [managers EXCEPT ![c] = Reset(c)]
    /\ UNCHANGED <<serverVars, on, hung, node_list_, port, log, up, left, history>>

\* The first table_size entries of a page, their ids under the own shape.
Entries(m, shape) ==
    LET read == {m.entries[i] : i \in 1 .. m.table_size}
        Id(e) == convert_ID_int_to_string(e.id, shape)
    IN  [s \in {Id(e) : e \in read} |-> (CHOOSE e \in read : Id(e) = s).address]

\* A page is added to what is listed; nothing ever clears the list.
Listed(c, m) ==
    LET page == Entries(m, eval_config_[c].shape)
        list == node_list_[c]
    IN  [s \in DOMAIN page \cup DOMAIN list |->
            IF s \in DOMAIN page THEN page[s] ELSE list[s]]

\* PeerManager::start binds the port, unless another manager has it: the first
\* one's threads and socket outlive the pointer to it, since its server and it
\* hold each other.
Bound(c, manager) == IF port[c] = Nothing THEN manager ELSE port[c]

\* The tables come to an end: create_hgfr_table always does, create_kad_table
\* if there are nodes enough to draw from.
TablesEnd(cfg) == cfg.type = "eth" => Draws(cfg.str_node_id, cfg.shape) # {}

\* The last page makes a manager, or hangs the thread before it is made.
HandleTable(c) ==
    /\ Takes(c, "TABLE")
    /\ LET m == Head(down[c])
           cfg == eval_config_[c]
           manager == [run |-> cfg.run, self |-> cfg.str_node_id, list |-> node_list_'[c]]
       IN  \/ /\ cfg = Nothing
              /\ UNCHANGED <<hung, node_list_, managers, port>>
           \/ /\ cfg # Nothing
              /\ node_list_' = [node_list_ EXCEPT ![c] = Listed(c, m)]
              /\ \/ ~ m.is_end /\ UNCHANGED <<hung, managers, port>>
                 \/ /\ m.is_end /\ ~ TablesEnd(cfg)
                    /\ hung' = hung \cup {c}
                    /\ UNCHANGED <<managers, port>>
                 \/ /\ m.is_end /\ TablesEnd(cfg)
                    /\ managers' = [managers EXCEPT ![c][cfg.type] = manager]
                    /\ port' = [port EXCEPT ![c] = Bound(c, manager)]
                    /\ UNCHANGED hung
    /\ UNCHANGED <<serverVars, on, eval_config_, log, up, left, history>>

\* The manager receive goes to, by the type of the configuration.
Manager(c) == managers[c][eval_config_[c].type]

Key(manager) == <<manager.run, manager.self>>

\* The current manager broadcasts; whoever hears it among those it lists writes
\* to the log of the manager that has the port there.  (A gossip table cut short
\* by nodes missing in the list may be read beyond its end.  If that ends the
\* process, Crash stands for it, with the order still on its way.)
HandleBroadcast(c) ==
    /\ Takes(c, "BROADCAST")
    /\ IF HasManager(c)
       THEN \E hearers \in
                SUBSET {d \in Range(Manager(c).list) \ {c} : port[d] # Nothing} :
                LET sent == [i \in 1 .. RowsSent |-> <<c, i>>]
                IN  /\ log' = [d \in Clients |->
                          CASE d = c -> Write(log[c], Key(Manager(c)), sent)
                            [] d \in hearers -> Write(log[d], Key(port[d]), <<<<c, 0>>>>)
                            [] OTHER -> log[d]]
                    /\ UNCHANGED refused
       ELSE refused' = refused \cup {c} /\ UNCHANGED log
    /\ UNCHANGED <<serverVars, on, hung, eval_config_, node_list_, managers, port,
                   up, left, told, disturbed, hasty, pulled>>

\* A mutant: the last page is not sent.
LogPagesFull(rows) ==
    [i \in 1 .. Len(rows) \div LogPage |->
        SubSeq(rows, (i - 1) * LogPage + 1, i * LogPage)]

\* The log in pages; the last is what remains, if anything does.
LogPages(rows) ==
    [i \in 1 .. (Len(rows) + LogPage - 1) \div LogPage |->
        SubSeq(rows, (i - 1) * LogPage + 1, Min({i * LogPage, Len(rows)}))]

\* send_push_log, whatever run was asked for: the log of the current manager's
\* run.  Without a manager the process dereferences a null pointer and ends.
HandlePullLog(c) ==
    /\ Takes(c, "PULL_LOG")
    /\ UNCHANGED <<serverVars, left, disturbed, hasty>>
    /\ IF HasManager(c)
       THEN LET key == Key(Manager(c))
                pages == LogPages(Rows(log[c], key))
            IN  /\ up' = [up EXCEPT ![c] = @ \o
                      [i \in DOMAIN pages |->
                          [kind |-> "PUSH_LOG", key |-> key, log |-> pages[i]]]]
                /\ pulled' = [pulled EXCEPT ![c] = Write(@, key, Rows(log[c], key))]
                /\ UNCHANGED <<clientVars, told, refused>>
       ELSE Ends(c) /\ refused' = refused \cup {c} /\ UNCHANGED <<up, pulled>>

Handle(c) ==
    \/ HandleConfig(c)
    \/ HandleTable(c)
    \/ HandleBroadcast(c)
    \/ HandlePullLog(c)

-----------------------------------------------------------------------------
(***************************************************************************)
(* The server.  One command is one step: mlock_ keeps registrations out,   *)
(* and a client may take its messages any time later.                      *)
(***************************************************************************)

\* receive: INIT registers the sender anew, PUSH_LOG is appended to a file.
ServerReceive(c) ==
    /\ up[c] # <<>>
    /\ up' = [up EXCEPT ![c] = Tail(@)]
    /\ LET m == Head(up[c])
       IN  IF m.kind = "INIT"
           THEN db' = Append(db, c) /\ UNCHANGED filed
           ELSE filed' = Write(filed, m.key, m.log) /\ UNCHANGED db
    /\ UNCHANGED <<runs, clientVars, down, left, history>>

handle_config ==
    /\ Spend("config")
    /\ runs' = runs + 1
    /\ LET CONFIG(id) == [kind |-> "CONFIG", run |-> runs', node_id |-> id,
                          type |-> Configs[runs'].type, shape |-> Configs[runs'].shape]
       IN  down' = [c \in Clients |->
               down[c] \o [i \in DOMAIN RecordsOf(c) |-> CONFIG(RecordsOf(c)[i])]]
    /\ told' = [c \in Clients |-> IF c \in on \cap Addresses THEN "config" ELSE told[c]]
    /\ UNCHANGED <<db, filed, clientVars, up, disturbed, hasty, refused, pulled>>

\* A mutant: a full page after the first counts as empty.
TableSizeRest(i) == IF i > PageSize THEN i % PageSize ELSE i

\* table_size of the page that ends with the i-th entry.
TableSize(i) ==
    IF i > PageSize THEN IF i % PageSize = 0 THEN PageSize ELSE i % PageSize ELSE i

\* A mutant: the last page is the one that is not full.
IsEndShort(i) == TableSize(i) < PageSize

\* is_end of that page.
IsEnd(i) == i >= Len(db)

\* The node list in pages, each ending at a multiple of PageSize or at the end.
Pages ==
    LET size == Len(db)
        entry(j) == [id |-> Iteration[j], address |-> db[Iteration[j] + 1]]
        ends == [p \in 1 .. (size + PageSize - 1) \div PageSize |->
                    Min({p * PageSize, size})]
    IN  [p \in DOMAIN ends |->
            [kind |-> "TABLE", is_end |-> IsEnd(ends[p]),
             table_size |-> TableSize(ends[p]),
             entries |-> [j \in 1 .. ends[p] - (p - 1) * PageSize |->
                             entry((p - 1) * PageSize + j)]]]

\* Every page goes to everyone before the next page does.
handle_table ==
    /\ Spend("table")
    /\ LET copies(c) == Len(RecordsOf(c))
       IN  down' = [c \in Clients |->
               down[c] \o [i \in 1 .. Len(Pages) * copies(c) |->
                   Pages[(i - 1) \div copies(c) + 1]]]
    /\ told' = [c \in Clients |->
                  IF c \in on \cap Addresses /\ told[c] = "config" THEN "table"
                  ELSE told[c]]
    /\ UNCHANGED <<serverVars, clientVars, up, disturbed, hasty, refused, pulled>>

\* handle_broadcast and handle_pull_log, by hand or in the loops of "expr" and
\* "pull_log_all".
Order(id, kind) ==
    /\ Spend(kind)
    /\ LET c == db[id + 1]
       IN  /\ down' = [down EXCEPT ![c] = Append(@, [kind |-> kind])]
           /\ hasty' = IF told[c] = "table" THEN hasty ELSE hasty \cup {c}
    /\ UNCHANGED <<serverVars, clientVars, up, told, disturbed, refused, pulled>>

Operator ==
    /\ \A c \in Clients : Len(down[c]) <= MaxLag
    /\ \/ handle_config
       \/ handle_table
       \/ \E i \in DOMAIN db : Order(i - 1, "BROADCAST") \/ Order(i - 1, "PULL_LOG")

-----------------------------------------------------------------------------
(***************************************************************************)
(* The network.                                                            *)
(***************************************************************************)

\* The first datagram is gone, or the second arrives before it.  (What happens
\* to one further back shows when it comes to the front.)
Disturbances(s) ==
    {Tail(s)} \cup
    (IF Len(s) = 1 THEN {} ELSE {<<s[2], s[1]>> \o SubSeq(s, 3, Len(s))})

Disturb(c) ==
    /\ Spend("trouble")
    /\ disturbed' = disturbed \cup {c}
    /\ \/ /\ down[c] # <<>> /\ UNCHANGED up
          /\ \E s \in Disturbances(down[c]) : down' = [down EXCEPT ![c] = s]
       \/ /\ up[c] # <<>> /\ UNCHANGED down
          /\ \E s \in Disturbances(up[c]) : up' = [up EXCEPT ![c] = s]
    /\ UNCHANGED <<serverVars, clientVars, told, hasty, refused, pulled>>

\* What arrives where no process runs is gone.
Vanish(c) ==
    /\ c \notin on /\ down[c] # <<>>
    /\ down' = [down EXCEPT ![c] = Tail(@)]
    /\ UNCHANGED <<serverVars, clientVars, up, left, history>>

-----------------------------------------------------------------------------
Init ==
    /\ db = <<>> /\ runs = 0 /\ filed = Empty
    /\ on = {} /\ hung = {}
    /\ eval_config_ = [c \in Clients |-> Nothing]
    /\ node_list_ = [c \in Clients |-> Empty]
    /\ managers = [c \in Clients |-> [t \in EvalTypes |-> Nothing]]
    /\ port = [c \in Clients |-> Nothing]
    /\ log = [c \in Clients |-> Empty]
    /\ down = [c \in Clients |-> <<>>] /\ up = [c \in Clients |-> <<>>]
    /\ left \in Budgets
    /\ told = [c \in Clients |-> "nothing"]
    /\ disturbed = {} /\ hasty = {} /\ refused = {}
    /\ pulled = [c \in Clients |-> Empty]

Next ==
    \/ Operator
    \/ \E c \in Clients :
        \/ Start(c) \/ Crash(c) \/ Handle(c)
        \/ ServerReceive(c)
        \/ Disturb(c) \/ Vanish(c)

Spec == Init /\ [][Next]_vars

\* The threads of AsyncUDPServer take what has arrived, at the server and at
\* every client; nobody has to type or start anything.  A draw that can end
\* does, with probability 1.
FairSpec ==
    /\ Spec
    /\ \A c \in Clients : WF_vars(Handle(c)) /\ WF_vars(ServerReceive(c))

-----------------------------------------------------------------------------
(***************************************************************************)
(* Two clients that have managers of the same run find each other: either  *)
(* lists the other's address under the id the other goes by, whatever was  *)
(* paged, registered twice, or left in the lists by earlier runs; unless   *)
(* the network lost or swapped something on its way to or from one of them.*)
(***************************************************************************)
PeersFindEachOther ==
    \A c, d \in Clients \ disturbed, t \in EvalTypes :
        LET m == managers[c][t]
            n == managers[d][t]
        IN  m # Nothing /\ n # Nothing /\ m.run = n.run =>
                n.self \in DOMAIN m.list /\ m.list[n.self] = d

(***************************************************************************)
(* A client never has managers of both types, and the one it has is of the *)
(* type its configuration says: receive and send_push_log dereference the  *)
(* pointer that goes by the type without looking at it.                    *)
(***************************************************************************)
OneManager ==
    \A c \in Clients, t \in EvalTypes :
        managers[c][t] # Nothing =>
            /\ eval_config_[c] # Nothing /\ eval_config_[c].type = t
            /\ eval_config_[c].run = managers[c][t].run

(***************************************************************************)
(* A client follows every order given after it was sent configuration and  *)
(* node list: no broadcast comes "before configuration" and no log is      *)
(* pulled from a null pointer, through any number of runs and restarts.    *)
(***************************************************************************)
OrdersFollowed == refused \subseteq hasty \cup disturbed

(***************************************************************************)
(* What a client uploads is filed whole and in order, page by page, as     *)
(* often as it was pulled.                                                 *)
(***************************************************************************)
InFlight(c, key) ==
    FlattenSeq([i \in DOMAIN up[c] |->
        IF up[c][i].kind = "PUSH_LOG" /\ up[c][i].key = key THEN up[c][i].log ELSE <<>>])

LogsWhole ==
    \A c \in Clients \ disturbed : \A key \in DOMAIN pulled[c] :
        Rows(filed, key) \o InFlight(c, key) = pulled[c][key]

(***************************************************************************)
(* eval_client.cpp:21, "Reset": the manager of a new configuration takes   *)
(* the place of the old one, so it is the one that hears the network.      *)
(***************************************************************************)
ManagerHears ==
    \A c \in Clients, t \in EvalTypes :
        managers[c][t] # Nothing => port[c] = managers[c][t]

\* The configuration has no gossip table.
Endless(c) == eval_config_[c] # Nothing /\ ~ TablesEnd(eval_config_[c])

(***************************************************************************)
(* A client that was sent its configuration and then the node list gets a  *)
(* manager, unless something on the way is lost or overtaken, it crashes   *)
(* or the operator starts over: the page that ends the list always comes,  *)
(* and only a gossip table for too few nodes is never filled.              *)
(***************************************************************************)
SessionProceeds ==
    \A c \in Clients :
        told[c] = "table" ~>
            told[c] # "table" \/ HasManager(c) \/ c \in disturbed \/ Endless(c)

=============================================================================
