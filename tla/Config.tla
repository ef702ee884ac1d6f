------------------------------- MODULE Config -------------------------------
(***************************************************************************)
(* The configuration: a map from names to ConfigVars that threads look up  *)
(* and create, the variables' values with their change listeners, and the  *)
(* loading of YAML files into them.                                        *)
(*                                                                         *)
(* Locks are RWMutexes.  A write-locked section and a read-locked search   *)
(* of the map are one step each; setValue() holds the read lock of the     *)
(* variable while it calls the listeners, one step per call, lets it go    *)
(* and stores under the write lock.  A name is the sequence of its parts   *)
(* between dots.  A variable is a number or a text (std::string): a node   *)
(* whose text does not convert, as that of a map given to a number, throws *)
(* an exception that fromString() catches, and nothing changes.            *)
(***************************************************************************)
EXTENDS Naturals, Sequences, FiniteSetsExt

CONSTANTS Threads,
          Names,       \* names of variables the threads look up
          Texts,       \* those of the variables that are std::string
          Default,     \* the default value they give
          Values,      \* the texts of YAML nodes
          Numbers,     \* those that convert to a number
          Docs,        \* YAML files
          NoVal,       \* no value
          Listeners,   \* numbers addListener() gives, called in this order
          MaxLoads     \* bound: files loaded

\* A file is the sequence of the nodes below its root, a map before what is
\* in it: the key, the map it is in (0: the root), and the node's text.
Entries == [key : STRING, up : Nat, val : Values]

\* The nodes come depth first; the keys of a map differ, as YAML asks for;
\* and the text of a map is no number.
IsFile(doc) ==
  /\ doc # <<>>
  /\ \A i \in DOMAIN doc :
       /\ doc[i].up < i
       /\ \A k \in (doc[i].up + 1) .. (i - 1) : doc[k].up >= doc[i].up
       /\ \A j \in DOMAIN doc :
            /\ doc[j].up = doc[i].up /\ doc[j].key = doc[i].key => j = i
            /\ doc[j].up = i => doc[i].val \notin Numbers

ASSUME DocsAssumption == Docs \subseteq Seq(Entries) /\ \A doc \in Docs : IsFile(doc)
ASSUME ConfigAssumption ==
  /\ Numbers \subseteq Values /\ Default \in Numbers /\ NoVal \notin Values
  /\ Listeners \subseteq Nat

VARIABLES s_data,      \* name -> the number of its variable, 0: none
          vars,        \* the variables created: [val, cbs], cbs the listeners
          copy,        \* what each listener's callback has stored last
          th,          \* what each thread does
          loads,
          ran,         \* history: the file whose load, alone, ended last
          overlap      \* history: variables two calls have set, or set and
                       \* been subscribed to, at the same time

cfgVars == <<s_data, vars, copy, th, loads, ran, overlap>>

Idle == [pc |-> "idle", name |-> <<>>, var |-> 0, new |-> NoVal, left |-> {},
         todo |-> <<>>, doc |-> <<>>, had |-> {}, alone |-> TRUE]

CfgInit ==
  /\ s_data = [n \in Names |-> 0] /\ vars = <<>>
  /\ copy = [l \in Listeners |-> NoVal]
  /\ th = [t \in Threads |-> Idle]
  /\ loads = 0 /\ ran = {} /\ overlap = {}

\* Threads inside setValue(v, ..) that hold the read lock of v
Readers(v) == {t \in Threads : th[t].pc = "notify" /\ th[t].var = v}

\* Threads between the comparison and the store, or about to subscribe
Busy(v) == {t \in Threads : th[t].pc \in {"notify", "store", "subscribe"} /\ th[t].var = v}

\* Threads that load a file
Loading == {t \in Threads : th[t].doc # <<>>}

-----------------------------------------------------------------------------
(* Config::Lookup(name, default) *)

\* The first search, under the read lock of the map.
Lookup(t, n) ==
  /\ th[t].pc = "idle"
  /\ s_data[n] = 0
  /\ th' = [th EXCEPT ![t] = [Idle EXCEPT !.pc = "create", !.name = n]]
  /\ UNCHANGED <<s_data, vars, copy, loads, ran, overlap>>

\* Under the write lock: somebody may have created it in between.
Create(t) ==
  LET n == th[t].name
  IN /\ th[t].pc = "create"
     /\ \/ s_data[n] # 0 /\ UNCHANGED <<s_data, vars>>
        \/ /\ s_data[n] = 0
           /\ vars' = Append(vars, [name |-> n, val |-> Default, cbs |-> {}])
           /\ s_data' = [s_data EXCEPT ![n] = Len(vars) + 1]
     /\ th' = [th EXCEPT ![t] = Idle]
     /\ UNCHANGED <<copy, loads, ran, overlap>>

-----------------------------------------------------------------------------
(* Listeners: a client copies getValue() and then subscribes, as HookIniter
   and the HTTP parser's size limits do *)

CopyValue(t, l) ==
  /\ th[t].pc = "idle" /\ copy[l] = NoVal
  /\ \E v \in DOMAIN vars :
       /\ th' = [th EXCEPT ![t] = [Idle EXCEPT !.pc = "subscribe", !.var = v, !.left = {l}]]
       /\ copy' = [copy EXCEPT ![l] = vars[v].val]
       /\ overlap' = IF Busy(v) = {} THEN overlap ELSE overlap \union {v}
  /\ UNCHANGED <<s_data, vars, loads, ran>>

AddListener(t) ==
  /\ th[t].pc = "subscribe" /\ Readers(th[t].var) = {}
  /\ vars' = [vars EXCEPT ![th[t].var].cbs = @ \union th[t].left]
  /\ th' = [th EXCEPT ![t] = Idle]
  /\ UNCHANGED <<s_data, copy, loads, ran, overlap>>

\* delListener(), and clearListener() for a variable with one
DelListener(t) ==
  /\ th[t].pc = "idle"
  /\ \E v \in DOMAIN vars : \E l \in vars[v].cbs :
       Readers(v) = {} /\ vars' = [vars EXCEPT ![v].cbs = @ \ {l}]
  /\ UNCHANGED <<s_data, copy, th, loads, ran, overlap>>

-----------------------------------------------------------------------------
(* Loading a file *)

\* Mutant: the name of the map is not put in front.
Mut_ListAllNodes(doc) ==
  [i \in DOMAIN doc |-> [name |-> <<doc[i].key>>, val |-> doc[i].val]]

\* ListAllNodes(): every node with its dotted name.  At the root the first
\* key becomes the prefix of all that follow.
ListAllNodes(doc) ==
  LET name[i \in DOMAIN doc] ==
        (IF doc[i].up # 0 THEN name[doc[i].up] ELSE IF i = 1 THEN <<>> ELSE <<doc[1].key>>)
          \o <<doc[i].key>>
  IN [i \in DOMAIN doc |-> [name |-> name[i], val |-> doc[i].val]]

LoadFromYaml(t) ==
  /\ th[t].pc = "idle" /\ loads < MaxLoads
  /\ \E doc \in Docs :
       th' = [s \in Threads |->
                IF s # t THEN [th[s] EXCEPT !.alone = s \notin Loading]
                ELSE [Idle EXCEPT !.pc = "load", !.todo = ListAllNodes(doc), !.doc = doc,
                                  !.had = {n \in Names : s_data[n] # 0}, !.alone = Loading = {}]]
  /\ loads' = loads + 1 /\ ran' = {}
  /\ UNCHANGED <<s_data, vars, copy, overlap>>

\* lexical_cast: whether the variable of this name takes the text
Takes(n, text) == n \in Texts \/ text \in Numbers

\* LookupBase() of the next node, and setValue() of the variable as far as
\* the calls of the listeners: a node with no variable, a text that does not
\* convert, or the value the variable has already changes nothing.
LoadNext(t) ==
  LET node == Head(th[t].todo)
      v    == IF node.name \in Names THEN s_data[node.name] ELSE 0
      rest == [th[t] EXCEPT !.todo = Tail(@)]
      same == v = 0 \/ ~Takes(node.name, node.val) \/ vars[v].val = node.val
  IN /\ th[t].pc = "load" /\ th[t].todo # <<>>
     /\ th' = [th EXCEPT ![t] = IF same THEN rest
                                ELSE [rest EXCEPT !.pc = "notify", !.var = v, !.new = node.val,
                                                  !.left = vars[v].cbs]]
     /\ overlap' = IF same \/ Busy(v) = {} THEN overlap ELSE overlap \union {v}
     /\ UNCHANGED <<s_data, vars, copy, loads, ran>>

\* Mutant: only the first listener is called.
Mut_Notify(t) ==
  /\ th[t].pc = "notify" /\ th[t].left # {}
  /\ LET l == Min(th[t].left)
     IN /\ copy' = [copy EXCEPT ![l] = th[t].new]
        /\ th' = [th EXCEPT ![t].left = {}]
  /\ UNCHANGED <<s_data, vars, loads, ran, overlap>>

\* One listener is called with the new value.
Notify(t) ==
  /\ th[t].pc = "notify" /\ th[t].left # {}
  /\ LET l == Min(th[t].left)
     IN /\ copy' = [copy EXCEPT ![l] = th[t].new]
        /\ th' = [th EXCEPT ![t].left = @ \ {l}]
  /\ UNCHANGED <<s_data, vars, loads, ran, overlap>>

\* The read lock is released ..
Unlock(t) ==
  /\ th[t].pc = "notify" /\ th[t].left = {}
  /\ th' = [th EXCEPT ![t].pc = "store"]
  /\ UNCHANGED <<s_data, vars, copy, loads, ran, overlap>>

\* .. and the value stored under the write lock.
Store(t) ==
  /\ th[t].pc = "store" /\ Readers(th[t].var) = {}
  /\ vars' = [vars EXCEPT ![th[t].var].val = th[t].new]
  /\ th' = [th EXCEPT ![t].pc = "load"]
  /\ UNCHANGED <<s_data, copy, loads, ran, overlap>>

LoadDone(t) ==
  /\ th[t].pc = "load" /\ th[t].todo = <<>>
  /\ th' = [th EXCEPT ![t] = Idle]
  /\ ran' = IF th[t].alone THEN {[doc |-> th[t].doc, had |-> th[t].had]} ELSE {}
  /\ UNCHANGED <<s_data, vars, copy, loads, overlap>>

CfgNext ==
  \E t \in Threads :
    \/ \E n \in Names : Lookup(t, n)
    \/ Create(t)
    \/ \E l \in Listeners : CopyValue(t, l)
    \/ AddListener(t) \/ DelListener(t)
    \/ LoadFromYaml(t) \/ LoadNext(t) \/ Notify(t) \/ Unlock(t) \/ Store(t) \/ LoadDone(t)

CfgSpec == CfgInit /\ [][CfgNext]_cfgVars

-----------------------------------------------------------------------------
AtRest(v) == Busy(v) = {}

\* However the lookups, subscriptions and loads of the threads interleave, a
\* name has one variable, so that nobody holds one that no file reaches; and
\* a listener that is still subscribed has been told the value the variable
\* has, once no setValue() is under way, unless two setValue() calls, or one
\* and a subscription, have overlapped on that variable: the comparison and
\* the calls are under another lock than the store.
ListenersFollow ==
  \A v \in DOMAIN vars :
    /\ s_data[vars[v].name] = v
    /\ AtRest(v) /\ v \notin overlap => \A l \in vars[v].cbs : copy[l] = vars[v].val

\* The ways from the root of a file down to its nodes
Ways(doc) ==
  {c \in UNION {[1 .. n -> DOMAIN doc] : n \in DOMAIN doc} :
     doc[c[1]].up = 0 /\ \A k \in DOMAIN c : k # 1 => doc[c[k]].up = c[k - 1]}

\* The names a file gives values to that their variables take: the keys on
\* the way to a node
Paths(doc) ==
  {p \in {[name |-> [k \in DOMAIN c |-> doc[c[k]].key], val |-> doc[c[Len(c)]].val] : c \in Ways(doc)} :
     Takes(p.name, p.val)}

OneRoot(doc) == \A i \in DOMAIN doc : doc[i].up = 0 => i = 1

\* A file with one key at its root, maps in it as deep as they may be, that
\* was loaded with no other load at the same time has left in every variable
\* it names, of those that existed when it began, the value it gives.  (With
\* more root keys the first becomes a prefix of the others, whose variables
\* are not found.)
LoadReaches ==
  \A r \in ran : OneRoot(r.doc) =>
    \A p \in Paths(r.doc) : p.name \in r.had => vars[s_data[p.name]].val = p.val
-----------------------------------------------------------------------------
(* The inductive strengthenings that the proofs in ConfigProofs use. *)

\* What ListAllNodes() yields
Listed == [name : Seq(STRING), val : Values]

Work == [pc : {"idle", "create", "subscribe", "load", "notify", "store"},
         name : Names \union {<<>>}, var : Nat, new : Values \union {NoVal},
         left : SUBSET Listeners, todo : Seq(Listed), doc : Docs \union {<<>>},
         had : SUBSET Names, alone : BOOLEAN]

\* Type invariant.
CfgTypeOK ==
  /\ s_data \in [Names -> Nat]
  /\ vars \in Seq([name : Names, val : Values, cbs : SUBSET Listeners])
  /\ copy \in [Listeners -> Values \union {NoVal}]
  /\ th \in [Threads -> Work]
  /\ loads \in Nat /\ ran \subseteq [doc : Docs, had : SUBSET Names]
  /\ overlap \subseteq Nat

\* The map and the variables point at each other.
MapShape ==
  /\ \A v \in DOMAIN vars : s_data[vars[v].name] = v
  /\ \A n \in Names : s_data[n] # 0 => s_data[n] \in DOMAIN vars /\ vars[s_data[n]].name = n

\* What a thread's locals mean at each place.
WorkShape ==
  \A t \in Threads :
    /\ th[t].pc = "create" => th[t].name \in Names
    /\ th[t].pc \in {"notify", "store", "subscribe"} => th[t].var \in DOMAIN vars
    /\ th[t].pc \in {"notify", "store"} => th[t].new # NoVal
    /\ th[t].pc = "notify" => th[t].left \subseteq vars[th[t].var].cbs
    /\ th[t].pc \in {"load", "notify", "store"} <=> th[t].doc # <<>>

\* One call at a time works on a variable that has not seen an overlap.
OneBusy == \A v \in DOMAIN vars \ overlap : \A t, u \in Busy(v) : t = u

\* Listener l belongs to variable v: it is subscribed, or about to be.
Owns(v, l) ==
  \/ l \in vars[v].cbs
  \/ \E t \in Threads : th[t].pc = "subscribe" /\ th[t].var = v /\ l \in th[t].left

\* A listener belongs to one variable, and has copied a value before.
OneOwner ==
  \A l \in Listeners : \A v \in DOMAIN vars :
    Owns(v, l) => copy[l] # NoVal /\ \A w \in DOMAIN vars : Owns(w, l) => w = v

\* What the listeners of v know while t works on it.
Knows(v, t) ==
  /\ th[t].pc = "subscribe" => \A l \in vars[v].cbs \union th[t].left : copy[l] = vars[v].val
  /\ th[t].pc = "notify" => \A l \in vars[v].cbs \ th[t].left : copy[l] = th[t].new
  /\ th[t].pc = "store" => \A l \in vars[v].cbs : copy[l] = th[t].new

Follow ==
  \A v \in DOMAIN vars \ overlap :
    /\ AtRest(v) => \A l \in vars[v].cbs : copy[l] = vars[v].val
    /\ \A t \in Busy(v) : Knows(v, t)

\* Variables that existed exist; who loads alone loads alone; after a load
\* that was recorded none has begun.
LoadShape ==
  /\ \A t \in Threads : \A n \in th[t].had : s_data[n] # 0
  /\ \A r \in ran : \A n \in r.had : s_data[n] # 0
  /\ \A t \in Loading : th[t].alone => Loading = {t}
  /\ ran # {} => Loading = {}

\* A value of the file that t loads is still to come, being set, or stored.
Reaches(t, p) ==
  \/ \E i \in DOMAIN th[t].todo : th[t].todo[i] = p
  \/ th[t].pc \in {"notify", "store"} /\ th[t].var = s_data[p.name] /\ th[t].new = p.val
  \/ vars[s_data[p.name]].val = p.val

\* What t has still to set, and what it is setting, is what the file says.
OnPath(t) ==
  /\ \A i \in DOMAIN th[t].todo :
       Takes(th[t].todo[i].name, th[t].todo[i].val) => th[t].todo[i] \in Paths(th[t].doc)
  /\ th[t].pc \in {"notify", "store"} =>
       [name |-> vars[th[t].var].name, val |-> th[t].new] \in Paths(th[t].doc)

LoadKept ==
  \A t \in Loading : OneRoot(th[t].doc) =>
    /\ OnPath(t)
    /\ th[t].alone => \A p \in Paths(th[t].doc) : p.name \in th[t].had => Reaches(t, p)
=============================================================================
