------------------------ MODULE Configuration_proofs ------------------------
(***************************************************************************)
(* Proofs about Configuration, for any rows, requests, reconciliations and *)
(* plugins.  IInv is inductive: first what each reload leaves running      *)
(* (Follows is preserved by it), then what each transaction leaves in the  *)
(* tables, then one lemma per action.  Untroubled and AloneInv are         *)
(* inductive relative to IInv, and give the two other properties.          *)
(***************************************************************************)
EXTENDS Configuration, TLAPS

(* What a row and a running instance are, by the kind of the id.           *)
LEMMA Kinds ==
    /\ Types = DriverTypes \cup NorthTypes
    /\ \A c \in Conns : /\ c \in Ids
                        /\ c \notin Groups /\ c \notin Tags /\ c \notin Apps
                        /\ RowOf(c) = PluginRow(DriverTypes)
                        /\ RunOf(c) = RunInstance
    /\ \A a \in Apps : /\ a \in Ids
                       /\ a \notin Groups /\ a \notin Tags /\ a \notin Conns
                       /\ RowOf(a) = PluginRow(NorthTypes)
                       /\ RunOf(a) = RunInstance
    /\ \A g \in Groups : /\ g \in Ids
                         /\ g \notin Conns /\ g \notin Tags /\ g \notin Apps
                         /\ RowOf(g) = GroupRow /\ RunOf(g) = RunGroup
    /\ \A t \in Tags : /\ t \in Ids
                       /\ t \notin Groups /\ t \notin Conns /\ t \notin Apps
                       /\ RowOf(t) = TagRow /\ RunOf(t) = {}
    /\ \A id \in Ids : id \in Conns \/ id \in Apps \/ id \in Groups \/ id \in Tags
<1>1. \A id \in Ids : id \in Conns \/ id \in Apps \/ id \in Groups \/ id \in Tags
  BY DEF Ids
<1>2. ASSUME NEW c \in Conns
      PROVE  /\ c \in Ids /\ c \notin Groups /\ c \notin Tags /\ c \notin Apps
             /\ RowOf(c) = PluginRow(DriverTypes) /\ RunOf(c) = RunInstance
  BY Disjoint DEF Ids, RowOf, RunOf
<1>3. ASSUME NEW a \in Apps
      PROVE  /\ a \in Ids /\ a \notin Groups /\ a \notin Tags /\ a \notin Conns
             /\ RowOf(a) = PluginRow(NorthTypes) /\ RunOf(a) = RunInstance
  BY Disjoint DEF Ids, RowOf, RunOf
<1>4. ASSUME NEW g \in Groups
      PROVE  /\ g \in Ids /\ g \notin Conns /\ g \notin Tags /\ g \notin Apps
             /\ RowOf(g) = GroupRow /\ RunOf(g) = RunGroup
  BY Disjoint DEF Ids, RowOf, RunOf
<1>5. ASSUME NEW t \in Tags
      PROVE  /\ t \in Ids /\ t \notin Groups /\ t \notin Conns /\ t \notin Apps
             /\ RowOf(t) = TagRow /\ RunOf(t) = {}
  BY Disjoint DEF Ids, RowOf, RunOf
<1>6. QED
  BY <1>1, <1>2, <1>3, <1>4, <1>5 DEF Types

(* None is no row and nothing that runs.                                   *)
LEMMA NoneApart ==
    /\ None \notin RunInstance /\ None \notin RunGroup
    /\ \A id \in Ids : None \notin RowOf(id) /\ None \notin RunOf(id)
<1>1. None \notin RunInstance /\ None \notin RunGroup
  BY Apart DEF RunInstance, RunGroup
<1>2. \A id \in Ids : None \notin RowOf(id)
  BY Apart
<1>3. QED
  BY <1>1, <1>2, Kinds

(* A table is typed if each of its entries is.                             *)
LEMMA RowTableIntro ==
    ASSUME NEW f, f = [i \in Ids |-> f[i]],
           \A id \in Ids : f[id] \in RowOf(id) \cup {None}
    PROVE  RowTable(f)
<1>1. ASSUME NEW id \in Ids PROVE f[id] \in AnyRow
  <2>1. f[id] \in RowOf(id) \cup {None}
    OBVIOUS
  <2>2. PluginRow(DriverTypes) \subseteq PluginRow(Types)
    BY DEF PluginRow, Types
  <2>3. PluginRow(NorthTypes) \subseteq PluginRow(Types)
    BY DEF PluginRow, Types
  <2>4. QED
    BY <2>1, <2>2, <2>3, Kinds DEF AnyRow
<1>2. QED
  BY <1>1 DEF RowTable

(* The same for what runs.                                                 *)
LEMMA RunTableIntro ==
    ASSUME NEW f, f = [i \in Ids |-> f[i]],
           \A id \in Ids : f[id] \in RunOf(id) \cup {None}
    PROVE  RunTable(f)
<1>1. ASSUME NEW id \in Ids PROVE f[id] \in AnyRun
  BY Kinds DEF AnyRun
<1>2. QED
  BY <1>1 DEF RunTable

(* The fields of a row and of what runs.                                   *)
LEMMA RowFields ==
    ASSUME TablesType
    PROVE  /\ row = [i \in Ids |-> row[i]]
           /\ \A id \in Conns \cup Apps : row[id] # None =>
                row[id].type \in Types /\ row[id].on \in BOOLEAN
           /\ \A g \in Groups : row[g] # None =>
                /\ row[g] \in GroupRow
                /\ row[g].parent \in Conns /\ row[g].on \in BOOLEAN
                /\ row[g].north \in SUBSET Apps /\ row[g].legacy \in SUBSET Apps
           /\ \A t \in Tags : row[t] # None =>
                row[t] \in TagRow /\ row[t].parent \in Groups /\ row[t].val \in Nat
<1> USE DEF TablesType, RowTable
<1>1. row = [i \in Ids |-> row[i]]
  OBVIOUS
<1>2. ASSUME NEW id \in Conns \cup Apps, row[id] # None
      PROVE  row[id].type \in Types /\ row[id].on \in BOOLEAN
  <2>1. row[id] \in PluginRow(DriverTypes) \cup PluginRow(NorthTypes)
    BY <1>2, Kinds
  <2>2. QED
    BY <2>1 DEF PluginRow, Types
<1>3. ASSUME NEW g \in Groups, row[g] # None
      PROVE  /\ row[g] \in GroupRow
             /\ row[g].parent \in Conns /\ row[g].on \in BOOLEAN
             /\ row[g].north \in SUBSET Apps /\ row[g].legacy \in SUBSET Apps
  <2>1. row[g] \in GroupRow
    BY <1>3, Kinds
  <2>2. QED
    BY <2>1 DEF GroupRow
<1>4. ASSUME NEW t \in Tags, row[t] # None
      PROVE  row[t] \in TagRow /\ row[t].parent \in Groups /\ row[t].val \in Nat
  <2>1. row[t] \in TagRow
    BY <1>4, Kinds
  <2>2. QED
    BY <2>1 DEF TagRow
<1>5. QED
  BY <1>1, <1>2, <1>3, <1>4

(* The fields of what runs; a tag is nothing that runs.                    *)
LEMMA RunFields ==
    ASSUME TablesType
    PROVE  /\ run = [i \in Ids |-> run[i]]
           /\ \A t \in Tags : run[t] = None
           /\ \A id \in Conns \cup Apps : run[id] \in RunInstance \cup {None}
           /\ \A g \in Groups : run[g] # None =>
                /\ run[g] \in RunGroup
                /\ run[g].parent \in Conns /\ run[g].north \in SUBSET Apps
<1> USE DEF TablesType, RunTable
<1>1. run = [i \in Ids |-> run[i]]
  OBVIOUS
<1>2. \A t \in Tags : run[t] = None
  BY Kinds
<1>3. \A id \in Conns \cup Apps : run[id] \in RunInstance \cup {None}
  BY Kinds
<1>4. ASSUME NEW g \in Groups, run[g] # None
      PROVE  /\ run[g] \in RunGroup
             /\ run[g].parent \in Conns /\ run[g].north \in SUBSET Apps
  <2>1. run[g] \in RunGroup
    BY <1>4, Kinds
  <2>2. QED
    BY <2>1 DEF RunGroup
<1>5. QED
  BY <1>1, <1>2, <1>3, <1>4

(* An instance that is started is one.                                     *)
LEMMA InstanceType ==
    ASSUME TablesType, PluginsType, NEW id \in Conns \cup Apps, row[id] # None
    PROVE  Instance(id) \in RunInstance /\ Instance(id) # None
<1>1. Instance(id) \in RunInstance
  BY RowFields DEF Instance, RunInstance, PluginsType
<1>2. QED
  BY <1>1, NoneApart

(* So is a group that is started.                                          *)
LEMMA GroupRunType ==
    ASSUME TablesType, NEW g \in Groups, row[g] # None
    PROVE  GroupRun(g) \in RunGroup /\ GroupRun(g) # None
<1>1. {<<t, row[t].val>> : t \in TagsOf(g)} \subseteq Tags \X Nat
  BY RowFields DEF TagsOf
<1>2. GroupRun(g) \in RunGroup
  BY <1>1, RowFields DEF GroupRun, RunGroup
<1>3. QED
  BY <1>2, NoneApart

(* The runtimes a reload can lead to.                                      *)
LEMMA StoppedType ==
    ASSUME TablesType, NEW gone PROVE RunTable(Stopped(gone))
<1>1. \A i \in Ids : Stopped(gone)[i] \in RunOf(i) \cup {None}
  BY DEF TablesType, RunTable, Stopped
<1>2. Stopped(gone) = [i \in Ids |-> Stopped(gone)[i]]
  BY DEF Stopped
<1>3. QED
  BY <1>1, <1>2, RunTableIntro

(* A connection or an application is started, and nothing else moves.      *)
LEMMA StartedAt ==
    ASSUME TablesType, PluginsType, NEW id \in Conns \cup Apps, row[id] # None
    PROVE  /\ RunTable(StartedAlone(id))
           /\ \A i \in Ids : StartedAlone(id)[i] =
                               IF i = id THEN Instance(id) ELSE run[i]
<1> DEFINE new == StartedAlone(id)
<1>1. \A i \in Ids : new[i] = IF i = id THEN Instance(id) ELSE run[i]
  BY RunFields, Kinds DEF StartedAlone
<1>2. Instance(id) \in RunOf(id)
  BY InstanceType, Kinds
<1>3. \A i \in Ids : new[i] \in RunOf(i) \cup {None}
  BY <1>1, <1>2 DEF TablesType, RunTable
<1>4. new = [i \in Ids |-> new[i]]
  BY RunFields DEF StartedAlone
<1>5. RunTable(new)
  BY <1>3, <1>4, RunTableIntro
<1>6. QED
  BY <1>1, <1>5

(* A connection is started, with the groups that were stopped with it.     *)
LEMMA ConnectionUpAt ==
    ASSUME TablesType, PluginsType, NEW c \in Conns, row[c] # None
    PROVE  /\ RunTable(ConnectionUp(c))
           /\ \A i \in Ids : ConnectionUp(c)[i] =
                IF i \in StartedWith(c) THEN GroupRun(i)
                ELSE IF i = c THEN Instance(c) ELSE run[i]
<1> DEFINE new == ConnectionUp(c)
<1>1. \A i \in Ids : new[i] = IF i \in StartedWith(c) THEN GroupRun(i)
                              ELSE StartedAlone(c)[i]
  BY DEF ConnectionUp
<1>2. ASSUME NEW i \in StartedWith(c) PROVE GroupRun(i) \in RunOf(i)
  BY GroupRunType, Kinds DEF StartedWith, On
<1>3. \A i \in Ids : new[i] \in RunOf(i) \cup {None}
  BY <1>1, <1>2, StartedAt DEF RunTable
<1>4. new = [i \in Ids |-> new[i]]
  BY DEF ConnectionUp
<1>5. RunTable(new)
  BY <1>3, <1>4, RunTableIntro
<1>6. QED
  BY <1>1, <1>5, StartedAt

(* An application is gone, and every running group is without it.          *)
LEMMA DetachedAt ==
    ASSUME TablesType, NEW a \in Apps
    PROVE  /\ RunTable(Detached(a))
           /\ Detached(a)[a] = None
           /\ \A i \in Ids \ Groups : i # a => Detached(a)[i] = run[i]
           /\ \A g \in Groups : run[g] = None => Detached(a)[g] = None
           /\ \A g \in Groups : run[g] # None =>
                /\ Detached(a)[g] # None
                /\ Detached(a)[g].parent = run[g].parent
                /\ Detached(a)[g].tags = run[g].tags
                /\ Detached(a)[g].north = run[g].north \ {a}
<1> DEFINE new == Detached(a)
<1>1. new = [i \in Ids |-> new[i]]
  BY DEF Detached
<1>2. new[a] = None
  BY Kinds DEF Detached
<1>3. ASSUME NEW i \in Ids \ Groups, i # a PROVE new[i] = run[i]
  BY <1>3, Kinds DEF Detached
<1>4. ASSUME NEW g \in Groups, run[g] = None PROVE new[g] = None
  BY <1>4, Kinds DEF Detached
<1>5. ASSUME NEW g \in Groups, run[g] # None
      PROVE  /\ new[g] \in RunGroup
             /\ new[g].parent = run[g].parent
             /\ new[g].tags = run[g].tags
             /\ new[g].north = run[g].north \ {a}
  <2>1. new[g] = [run[g] EXCEPT !.north = @ \ {a}]
    BY <1>5, Kinds DEF Detached
  <2>2. run[g] \in RunGroup
    BY <1>5, RunFields
  <2>3. QED
    BY <2>1, <2>2 DEF RunGroup
<1>6. \A i \in Ids : new[i] \in RunOf(i) \cup {None}
  BY <1>2, <1>3, <1>4, <1>5, Kinds DEF TablesType, RunTable
<1>7. RunTable(new)
  BY <1>1, <1>6, RunTableIntro
<1>8. QED
  BY <1>2, <1>3, <1>4, <1>5, <1>7, NoneApart

(* Whatever is reloaded, the runtime keeps its type.                       *)
LEMMA ReloadedType ==
    ASSUME TablesType, PluginsType, NEW id \in Ids \ Tags
    PROVE  RunTable(Reloaded(id))
<1>1. CASE On(id) /\ id \in Conns
  BY <1>1, ConnectionUpAt, Kinds DEF Reloaded, On
<1>2. CASE On(id) /\ id \in Apps
  BY <1>2, StartedAt, Kinds DEF Reloaded, On
<1>3. CASE On(id) /\ id \in Groups
  <2> DEFINE new == [run EXCEPT ![id] = GroupRun(id)]
  <2>1. Reloaded(id) = new
    BY <1>3, Kinds DEF Reloaded
  <2>2. \A i \in Ids : new[i] = IF i = id THEN GroupRun(id) ELSE run[i]
    BY RunFields
  <2>3. GroupRun(id) \in RunOf(id)
    BY <1>3, GroupRunType, Kinds DEF On
  <2>4. \A i \in Ids : new[i] \in RunOf(i) \cup {None}
    BY <2>2, <2>3 DEF TablesType, RunTable
  <2>5. new = [i \in Ids |-> new[i]]
    BY RunFields
  <2>6. QED
    BY <2>1, <2>4, <2>5, RunTableIntro
<1>4. CASE ~On(id) /\ id \in Conns
  BY <1>4, StoppedType, Kinds DEF Reloaded
<1>5. CASE id \in Apps /\ row[id] = None
  BY <1>5, DetachedAt, Kinds DEF Reloaded, On
<1>6. CASE ~On(id) /\ id \notin Conns /\ ~(id \in Apps /\ row[id] = None)
  BY <1>6, StoppedType DEF Reloaded
<1>7. QED
  BY <1>1, <1>2, <1>3, <1>4, <1>5, <1>6, Kinds

(* What is current stays so as long as nothing it depends on changes.      *)
LEMMA PluginKept ==
    ASSUME IInv, NEW i \in Conns \cup Apps, i \notin pending,
           row'[i] = row[i], run'[i] = run[i], UNCHANGED reg
    PROVE  Current(i)'
<1>1. Current(i) /\ i \notin Groups
  BY Kinds DEF IInv, Follows
<1>2. QED
  BY <1>1 DEF Current, Wanted, CanReload, On, Instance

(* A group also depends on its connection, its tags and what is pending.   *)
LEMMA GroupKept ==
    ASSUME IInv, NEW g \in Groups, g \notin pending,
           row'[g] = row[g], run'[g] = run[g],
           On(g) => (run'[row[g].parent] = None <=> run[row[g].parent] = None),
           GroupRun(g)'.tags = GroupRun(g).tags,
           pending \cap Apps \subseteq pending'
    PROVE  Current(g)'
<1>1. Current(g)
  BY Kinds DEF IInv, Follows
<1>2. Wanted(g)' <=> Wanted(g)
  BY DEF Wanted, CanReload, On
<1>3. run[g] # None => run[g].north \subseteq Apps
  BY RunFields DEF IInv, TypeOK
<1>4. CASE Wanted(g)
  <2>1. /\ run[g] # None
        /\ run[g].parent = row[g].parent
        /\ run[g].tags = GroupRun(g).tags
        /\ row[g].north \subseteq run[g].north
        /\ run[g].north \subseteq row[g].north \cup pending
    BY <1>1, <1>4 DEF Current
  <2>2. /\ run'[g] # None
        /\ run'[g].parent = row'[g].parent
        /\ run'[g].tags = GroupRun(g)'.tags
        /\ row'[g].north \subseteq run'[g].north
        /\ run'[g].north \subseteq row'[g].north \cup pending'
    BY <2>1, <1>3
  <2>3. QED
    BY <2>2, <1>2, <1>4 DEF Current
<1>5. CASE ~Wanted(g)
  BY <1>1, <1>2, <1>5 DEF Current
<1>6. QED
  BY <1>4, <1>5

(* The run of a group depends on the rows alone.                           *)
LEMMA SameTags ==
    ASSUME UNCHANGED row, NEW g \in Groups
    PROVE  GroupRun(g)' = GroupRun(g)
BY DEF GroupRun, TagsOf

(* A group that has just been started is current.                          *)
LEMMA GroupStarted ==
    ASSUME IInv, NEW g \in Groups, On(g), UNCHANGED row,
           run'[g] = GroupRun(g), run'[row[g].parent] # None
    PROVE  Current(g)'
<1>1. Wanted(g)'
  BY DEF Wanted, CanReload, On
<1>2. GroupRun(g) # None /\ GroupRun(g)' = GroupRun(g)
  BY GroupRunType, SameTags DEF On, IInv, TypeOK
<1>3. GroupRun(g).parent = row[g].parent /\ GroupRun(g).north = row[g].north
  BY DEF GroupRun
<1>4. QED
  BY <1>1, <1>2, <1>3 DEF Current

(* A group that should not run and does not is current.                    *)
LEMMA GroupDown ==
    ASSUME NEW g \in Groups, UNCHANGED row, run'[g] = None,
           ~On(g) \/ run'[row[g].parent] = None
    PROVE  Current(g)'
BY DEF Current, Wanted, CanReload, On

(* The parent of an enabled group is a connection.                         *)
LEMMA ParentConn ==
    ASSUME IInv, NEW g \in Groups, row[g] # None
    PROVE  /\ row[g].parent \in Conns /\ row[g].parent \in Ids
           /\ row[g].north \subseteq Apps
BY RowFields, Kinds DEF IInv, TypeOK

(* A running group that is not pending runs on the connection of its row.  *)
LEMMA RunsAsRow ==
    ASSUME IInv, NEW g \in Groups, g \notin pending, run[g] # None
    PROVE  /\ On(g) /\ row[g] # None
           /\ run[g].parent = row[g].parent
           /\ run[row[g].parent] # None
           /\ row[g].north \subseteq run[g].north
           /\ run[g].north \subseteq row[g].north \cup pending
           /\ run[g].tags = GroupRun(g).tags
BY Kinds DEF IInv, Follows, Current, Wanted, CanReload, On

(* A connection is reloaded that is enabled.                               *)
LEMMA ConnUpFollows ==
    ASSUME IInv, NEW c \in Conns, On(c), CanReload(c), ReloadSucceeds(c),
           UNCHANGED <<row, reg>>
    PROVE  Follows'
<1> SUFFICES ASSUME NEW i \in (Ids \ Tags) \ pending' PROVE Current(i)'
  BY DEF Follows
<1> USE DEF ReloadSucceeds, Along, Overtaken
<1>1. /\ run' = ConnectionUp(c)
      /\ pending' = (pending \ ({c} \cup StartedWith(c))) \cup Left(c)
  BY Kinds DEF Reloaded
<1>2. \A j \in Ids : run'[j] = IF j \in StartedWith(c) THEN GroupRun(j)
                               ELSE IF j = c THEN Instance(c) ELSE run[j]
  BY <1>1, ConnectionUpAt DEF IInv, TypeOK, On
<1>3. StartedWith(c) \subseteq Groups
  BY DEF StartedWith
<1>4. run'[c] = Instance(c) /\ run'[c] # None
  BY <1>2, <1>3, InstanceType, Kinds DEF IInv, TypeOK, On
<1>5. \A j \in Conns \cup Apps : j # c => run'[j] = run[j]
  BY <1>2, <1>3, Kinds
<1>6. CASE i = c
  BY <1>4, <1>6, Kinds DEF Current, Wanted, CanReload, On, Instance
<1>7. CASE i \in Conns \cup Apps /\ i # c
  BY <1>1, <1>3, <1>5, <1>7, PluginKept, Kinds
<1>8. CASE i \in StartedWith(c)
  BY <1>2, <1>3, <1>4, <1>8, GroupStarted, Kinds DEF StartedWith
<1>9. CASE i \in Groups /\ i \notin StartedWith(c)
  <2>1. run'[i] = run[i] /\ i \notin pending
    BY <1>1, <1>2, <1>9, Kinds
  <2>2. CASE run[i] = None
    <3>1. ~On(i) \/ row[i].parent # c
      BY <1>9, <2>2 DEF StartedWith
    <3>2. On(i) => (run'[row[i].parent] = None <=> run[row[i].parent] = None)
      BY <1>5, <1>9, <3>1, ParentConn DEF On
    <3>3. QED
      BY <1>1, <1>3, <1>9, <2>1, <3>2, GroupKept, SameTags, Kinds
  <2>3. CASE run[i] # None
    <3>1. run[row[i].parent] # None /\ row[i] # None
      BY <1>9, <2>1, <2>3, RunsAsRow
    <3>2. run'[row[i].parent] # None
      BY <1>4, <1>5, <1>9, <3>1, ParentConn
    <3>3. QED
      BY <1>1, <1>3, <1>9, <2>1, <3>1, <3>2, GroupKept, SameTags, Kinds
  <2>4. QED
    BY <2>2, <2>3
<1>10. QED
  BY <1>6, <1>7, <1>8, <1>9, Kinds

(* It went up and its groups did not: ReloadFails.                         *)
LEMMA ConnAloneFollows ==
    ASSUME IInv, NEW c \in Conns, On(c), CanReload(c),
           run' = StartedAlone(c), pending' = pending \cup StartedWith(c),
           UNCHANGED <<row, reg>>
    PROVE  Follows'
<1> SUFFICES ASSUME NEW i \in (Ids \ Tags) \ pending' PROVE Current(i)'
  BY DEF Follows
<1>2. \A j \in Ids : run'[j] = IF j = c THEN Instance(c) ELSE run[j]
  BY StartedAt DEF IInv, TypeOK, On
<1>3. StartedWith(c) \subseteq Groups
  BY DEF StartedWith
<1>4. run'[c] = Instance(c) /\ run'[c] # None
  BY <1>2, InstanceType, Kinds DEF IInv, TypeOK, On
<1>5. \A j \in Conns \cup Apps : j # c => run'[j] = run[j]
  BY <1>2, Kinds
<1>6. CASE i = c
  BY <1>4, <1>6, Kinds DEF Current, Wanted, CanReload, On, Instance
<1>7. CASE i \in Conns \cup Apps /\ i # c
  BY <1>3, <1>5, <1>7, PluginKept, Kinds
<1>9. CASE i \in Groups
  <2>1. run'[i] = run[i] /\ i \notin pending /\ i \notin StartedWith(c)
    BY <1>2, <1>9, Kinds
  <2>2. CASE run[i] = None
    <3>1. ~On(i) \/ row[i].parent # c
      BY <1>9, <2>1, <2>2 DEF StartedWith
    <3>2. On(i) => (run'[row[i].parent] = None <=> run[row[i].parent] = None)
      BY <1>5, <1>9, <3>1, ParentConn DEF On
    <3>3. QED
      BY <1>3, <1>9, <2>1, <3>2, GroupKept, SameTags, Kinds
  <2>3. CASE run[i] # None
    <3>1. run[row[i].parent] # None /\ row[i] # None
      BY <1>9, <2>1, <2>3, RunsAsRow
    <3>2. run'[row[i].parent] # None
      BY <1>4, <1>5, <1>9, <3>1, ParentConn
    <3>3. QED
      BY <1>3, <1>9, <2>1, <3>1, <3>2, GroupKept, SameTags, Kinds
  <2>4. QED
    BY <2>2, <2>3
<1>10. QED
  BY <1>6, <1>7, <1>9, Kinds

(* A connection stops, and the groups that run on it.  What is left        *)
(* pending of them is what their rows want elsewhere.                      *)
LEMMA ConnDownFollows ==
    ASSUME IInv, NEW c \in Conns, run' = Stopped({c} \cup RunningOn(c)),
           UNCHANGED <<row, reg>>,
           pending \ ({c} \cup StoppedWith(c)) \subseteq pending',
           c \notin pending' => ~Wanted(c) \/ (row[c] = None)
    PROVE  Follows'
<1> SUFFICES ASSUME NEW i \in (Ids \ Tags) \ pending' PROVE Current(i)'
  BY DEF Follows
<1>1. \A j \in Ids : run'[j] = IF j = c \/ j \in RunningOn(c) THEN None ELSE run[j]
  BY DEF Stopped
<1>2. RunningOn(c) \subseteq Groups /\ StoppedWith(c) \subseteq RunningOn(c)
  BY DEF RunningOn, StoppedWith
<1>3. run'[c] = None
  BY <1>1, Kinds
<1>4. \A j \in Conns \cup Apps : j # c => run'[j] = run[j]
  BY <1>1, <1>2, Kinds
<1>5. CASE i = c
  BY <1>3, <1>5, Kinds DEF Current, Wanted, CanReload, On, Instance
<1>6. CASE i \in Conns \cup Apps /\ i # c
  BY <1>2, <1>4, <1>6, PluginKept, Kinds
<1>7. CASE i \in RunningOn(c)
  <2>1. run'[i] = None /\ i \in Groups
    BY <1>1, <1>2, <1>7, Kinds
  <2>2. row[i] # None => row[i].parent = c
    <3>1. CASE i \in StoppedWith(c)
      BY <3>1 DEF StoppedWith
    <3>2. CASE i \notin pending
      BY <1>7, <2>1, <3>2, RunsAsRow DEF RunningOn
    <3>3. QED
      BY <3>1, <3>2, <2>1, Kinds
  <2>3. QED
    BY <1>3, <2>1, <2>2, GroupDown DEF On
<1>8. CASE i \in Groups /\ i \notin RunningOn(c)
  <2>1. i \notin pending /\ run'[i] = run[i]
    BY <1>1, <1>2, <1>8, Kinds
  <2>2. CASE run[i] # None
    <3>1. run[row[i].parent] # None /\ row[i] # None /\ row[i].parent # c
      BY <1>8, <2>1, <2>2, RunsAsRow DEF RunningOn
    <3>2. run'[row[i].parent] = run[row[i].parent]
      BY <1>4, <1>8, <3>1, ParentConn
    <3>3. QED
      BY <1>2, <1>8, <2>1, <3>1, <3>2, GroupKept, SameTags, Kinds
  <2>3. CASE run[i] = None /\ On(i) /\ row[i].parent # c
    <3>1. run'[row[i].parent] = run[row[i].parent]
      BY <1>4, <1>8, <2>3, ParentConn DEF On
    <3>2. QED
      BY <1>2, <1>8, <2>1, <3>1, GroupKept, SameTags, Kinds
  <2>4. CASE run[i] = None /\ (~On(i) \/ row[i].parent = c)
    BY <1>3, <1>8, <2>1, <2>4, GroupDown
  <2>5. QED
    BY <2>2, <2>3, <2>4
<1>9. QED
  BY <1>5, <1>6, <1>7, <1>8, Kinds

(* A group alone is reloaded.                                              *)
LEMMA GroupReloadFollows ==
    ASSUME IInv, NEW g \in Groups, ReloadSucceeds(g), UNCHANGED <<row, reg>>
    PROVE  Follows'
<1> SUFFICES ASSUME NEW i \in (Ids \ Tags) \ pending' PROVE Current(i)'
  BY DEF Follows
<1>2. pending \ {g} \subseteq pending'
  BY Kinds DEF ReloadSucceeds, Along
<1>3. \A j \in Ids : run'[j] = IF j # g THEN run[j]
                               ELSE IF On(g) THEN GroupRun(g) ELSE None
  BY RunFields, Kinds DEF ReloadSucceeds, Reloaded, Stopped, IInv, TypeOK
<1>4. CASE i = g
  <2>1. CASE On(g)
    <3>1. run[row[g].parent] # None /\ row[g].parent # g
      BY <2>1, ParentConn, Kinds DEF ReloadSucceeds, CanReload, On
    <3>2. run'[row[g].parent] # None
      BY <1>3, <2>1, <3>1, ParentConn DEF On
    <3>3. QED
      BY <1>3, <1>4, <2>1, <3>2, GroupStarted, Kinds
  <2>2. CASE ~On(g)
    BY <1>3, <1>4, <2>2, GroupDown, Kinds
  <2>3. QED
    BY <2>1, <2>2
<1>5. CASE i \in Conns \cup Apps
  BY <1>2, <1>3, <1>5, PluginKept, Kinds
<1>6. CASE i \in Groups /\ i # g
  <2>1. On(i) => run'[row[i].parent] = run[row[i].parent]
    BY <1>3, <1>6, ParentConn, Kinds DEF On
  <2>2. QED
    BY <1>2, <1>3, <1>6, <2>1, GroupKept, SameTags, Kinds
<1>7. QED
  BY <1>4, <1>5, <1>6, Kinds

(* An application that exists: which instance runs is nothing to the       *)
(* groups, but those left with it are pending.                             *)
LEMMA AppReloadFollows ==
    ASSUME IInv, NEW a \in Apps, row[a] # None,
           run' = [j \in Ids |-> IF j = a THEN run'[a] ELSE run[j]],
           a \notin pending' => Current(a)',
           pending \ {a} \subseteq pending', Left(a) \subseteq pending',
           UNCHANGED <<row, reg>>
    PROVE  Follows'
<1> SUFFICES ASSUME NEW i \in (Ids \ Tags) \ pending' PROVE Current(i)'
  BY DEF Follows
<1>1. \A j \in Ids : j # a => run'[j] = run[j]
  OBVIOUS
<1>2. CASE i \in Conns \cup Apps
  BY <1>1, <1>2, PluginKept, Kinds
<1>3. CASE i \in Groups
  <2>1. i \notin pending /\ i \notin Left(a) /\ run'[i] = run[i]
    BY <1>1, <1>3, Kinds
  <2>2. On(i) => run'[row[i].parent] = run[row[i].parent]
    BY <1>1, <1>3, ParentConn, Kinds DEF On
  <2>3. Wanted(i)' <=> Wanted(i)
    BY <1>3, <2>2, Kinds DEF Wanted, CanReload, On
  <2>4. CASE ~Wanted(i)
    BY <2>1, <2>3, <2>4, <1>3, Kinds DEF IInv, Follows, Current
  <2>5. CASE Wanted(i)
    <3>1. run[i] # None
      BY <2>1, <2>5, <1>3, Kinds DEF IInv, Follows, Current
    <3>2. a \in run[i].north => a \in row[i].north
      BY <2>1, <1>3, <3>1, ParentConn, RunsAsRow, Kinds DEF Left, Refers
    <3>3. run[i].north \subseteq row[i].north \cup pending'
      BY <2>1, <1>3, <3>1, <3>2, RunsAsRow, Kinds
    <3>4. QED
      BY <1>3, <2>1, <2>3, <2>5, <3>1, <3>3, RunsAsRow, SameTags,
         Kinds DEF Current
  <2>6. QED
    BY <2>4, <2>5
<1>4. QED
  BY <1>2, <1>3, Kinds

(* The application is gone: it is detached from every group that runs.     *)
LEMMA AppGoneFollows ==
    ASSUME IInv, NEW a \in Apps, row[a] = None, ReloadSucceeds(a),
           UNCHANGED <<row, reg>>
    PROVE  Follows'
<1> SUFFICES ASSUME NEW i \in (Ids \ Tags) \ pending' PROVE Current(i)'
  BY DEF Follows
<1>1. /\ run' = Detached(a)
      /\ pending' = (pending \ {a}) \cup BoundAgain(a)
  BY Kinds DEF ReloadSucceeds, Reloaded, On, Along, Overtaken
<1>2. \A j \in Ids \ Groups : j # a => run'[j] = run[j]
  BY <1>1, DetachedAt DEF IInv, TypeOK
<1>3. CASE i = a
  <2>1. run'[a] = None
    BY <1>1, DetachedAt DEF IInv, TypeOK
  <2>2. QED
    BY <1>3, <2>1, Kinds DEF Current, Wanted, On
<1>4. CASE i \in Conns \cup Apps /\ i # a
  BY <1>1, <1>2, <1>4, PluginKept, Kinds DEF BoundAgain
<1>5. CASE i \in Groups
  <2>1. i \notin pending /\ i \notin BoundAgain(a)
    BY <1>1, <1>5, Kinds
  <2>2. On(i) => run'[row[i].parent] = run[row[i].parent]
    BY <1>2, <1>5, ParentConn, Kinds DEF On
  <2>3. Wanted(i)' <=> Wanted(i)
    BY <1>5, <2>2, Kinds DEF Wanted, CanReload, On
  <2>4. CASE ~Wanted(i)
    <3>1. run[i] = None
      BY <2>1, <2>4, <1>5, Kinds DEF IInv, Follows, Current
    <3>2. run'[i] = None
      BY <1>1, <1>5, <3>1, DetachedAt DEF IInv, TypeOK
    <3>3. QED
      BY <2>3, <2>4, <3>2 DEF Current
  <2>5. CASE Wanted(i)
    <3>1. run[i] # None
      BY <2>1, <2>5, <1>5, Kinds DEF IInv, Follows, Current
    <3>2. /\ run'[i] # None
          /\ run'[i].parent = run[i].parent
          /\ run'[i].tags = run[i].tags
          /\ run'[i].north = run[i].north \ {a}
      BY <1>1, <1>5, <3>1, DetachedAt DEF IInv, TypeOK
    <3>3. a \notin row[i].north
      BY <2>1, <1>5, <3>1, RunsAsRow DEF BoundAgain, Refers
    <3>4. QED
      BY <1>1, <1>5, <2>1, <2>3, <2>5, <3>1, <3>2, <3>3, RunsAsRow, SameTags,
         Kinds DEF Current
  <2>6. QED
    BY <2>4, <2>5
<1>6. QED
  BY <1>3, <1>4, <1>5, Kinds

(* Whatever is reloaded, and whether it succeeds, what is not pending      *)
(* afterwards is current.                                                  *)
LEMMA ReloadSucceedsFollows ==
    ASSUME IInv, NEW id \in Ids \ Tags, ReloadSucceeds(id), UNCHANGED <<row, reg>>
    PROVE  Follows'
<1>1. CASE id \in Conns /\ On(id)
  BY <1>1, ConnUpFollows DEF ReloadSucceeds
<1>2. CASE id \in Conns /\ ~On(id)
  <2>1. /\ run' = Stopped({id} \cup RunningOn(id))
        /\ pending \ ({id} \cup StoppedWith(id)) \subseteq pending'
        /\ ~Wanted(id)
    BY <1>2, Kinds DEF ReloadSucceeds, Reloaded, Along, Wanted
  <2>2. QED
    BY <1>2, <2>1, ConnDownFollows
<1>3. CASE id \in Groups
  BY <1>3, GroupReloadFollows
<1>4. CASE id \in Apps /\ row[id] = None
  BY <1>4, AppGoneFollows
<1>5. CASE id \in Apps /\ row[id] # None
  <2>1. /\ pending \ {id} \subseteq pending'
        /\ Left(id) \subseteq pending'
    BY <1>5, Kinds DEF ReloadSucceeds, Along, Overtaken
  <2>2. run' = [j \in Ids |-> IF j = id THEN run'[id] ELSE run[j]]
    <3>1. CASE On(id)
      BY <1>5, <3>1, RunFields, Kinds DEF ReloadSucceeds, Reloaded,
         StartedAlone, IInv, TypeOK
    <3>2. CASE ~On(id)
      BY <1>5, <3>2, RunFields, Kinds DEF ReloadSucceeds, Reloaded,
         Stopped, IInv, TypeOK
    <3>3. QED
      BY <3>1, <3>2
  <2>3. Current(id)'
    <3>1. CASE On(id)
      <4>1. run'[id] = Instance(id) /\ Instance(id)' = Instance(id)
        BY <1>5, <3>1, StartedAt, Kinds DEF ReloadSucceeds,
           Reloaded, IInv, TypeOK, Instance
      <4>2. reg[row[id].type] > 0
        BY <1>5, <3>1, Kinds DEF ReloadSucceeds, CanReload
      <4>3. QED
        BY <1>5, <3>1, <4>1, <4>2, Kinds DEF Current, Wanted, CanReload, On
    <3>2. CASE ~On(id)
      <4>1. run'[id] = None
        BY <1>5, <3>2, Kinds DEF ReloadSucceeds, Reloaded, Stopped
      <4>2. QED
        BY <3>2, <4>1 DEF Current, Wanted, On
    <3>3. QED
      BY <3>1, <3>2
  <2>4. QED
    BY <1>5, <2>1, <2>2, <2>3, AppReloadFollows
<1>6. QED
  BY <1>1, <1>2, <1>3, <1>4, <1>5, Kinds

(* A step that touches neither rows nor runtime nor registries.            *)
LEMMA SameFollows ==
    ASSUME IInv, UNCHANGED <<row, reg, run, pending>> PROVE Follows'
BY DEF IInv, Follows, Current, Wanted, CanReload, On, Instance, GroupRun, TagsOf

(* A reload that fails.                                                    *)
LEMMA ReloadFailsFollows ==
    ASSUME IInv, NEW id \in Ids \ Tags, ReloadFails(id), UNCHANGED <<row, reg>>
    PROVE  Follows'
<1>1. CASE UNCHANGED <<run, pending>>
  BY <1>1, SameFollows
<1>2. CASE ~UNCHANGED <<run, pending>>
  BY <1>2, ConnAloneFollows DEF ReloadFails
<1>3. QED
  BY <1>1, <1>2

(* The tables a transaction can lead to.                                   *)
LEMMA UpsertAt ==
    ASSUME TablesType, NEW id \in Ids, NEW v \in RowOf(id)
    PROVE  /\ RowTable(Upsert(id, v))
           /\ \A i \in Ids : i # id => Upsert(id, v)[i] = row[i]
           /\ Upsert(id, v)[id] # None
           /\ id \in Tags => Upsert(id, v)[id] = v
           /\ id \notin Groups /\ row[id] # None => Upsert(id, v)[id] = v
           /\ id \in Groups /\ row[id] # None =>
                /\ Upsert(id, v)[id] = [v EXCEPT !.legacy = row[id].legacy]
                /\ Upsert(id, v)[id].legacy = row[id].legacy
<1> DEFINE up == IF row[id] = None /\ id \notin Tags
                 THEN [v EXCEPT !.on = TRUE] ELSE v
           lg == IF row[id] = None THEN {} ELSE row[id].legacy
           val == IF id \in Groups THEN [up EXCEPT !.legacy = lg] ELSE up
<1>1. Upsert(id, v) = [row EXCEPT ![id] = val]
  BY Zenon DEF Upsert
<1>2. /\ \A i \in Ids : i # id => Upsert(id, v)[i] = row[i]
      /\ Upsert(id, v)[id] = val
      /\ Upsert(id, v) = [i \in Ids |-> Upsert(id, v)[i]]
  <2> HIDE DEF val
  <2>1. QED
    BY <1>1, RowFields
<1>3. val \in RowOf(id)
  <2>1. CASE id \in Conns \cup Apps
    <3>1. PICK types : RowOf(id) = PluginRow(types)
      BY <2>1, Kinds
    <3>2. v \in PluginRow(types)
      BY <3>1
    <3>3. up \in PluginRow(types)
      BY <3>2 DEF PluginRow
    <3>4. QED
      BY <2>1, <3>1, <3>3, Kinds
  <2>2. CASE id \in Groups
    <3>1. up \in GroupRow
      <4>1. v \in GroupRow
        BY <2>2, Kinds
      <4>2. QED
        BY <4>1 DEF GroupRow
    <3>2. lg \in SUBSET Apps
      BY <2>2, RowFields
    <3>3. [up EXCEPT !.legacy = lg] \in GroupRow
      <4> HIDE DEF up, lg
      <4>1. QED
        BY <3>1, <3>2 DEF GroupRow
    <3>4. QED
      BY <2>2, <3>3, Kinds
  <2>3. CASE id \in Tags
    BY <2>3, Kinds
  <2>4. QED
    BY <2>1, <2>2, <2>3, Kinds
<1>4. RowTable(Upsert(id, v))
  <2> HIDE DEF val
  <2>1. \A i \in Ids : Upsert(id, v)[i] \in RowOf(i) \cup {None}
    BY <1>2, <1>3 DEF TablesType, RowTable
  <2>2. QED
    BY <1>2, <2>1, RowTableIntro
<1>5. val # None
  BY <1>3, NoneApart
<1>6. id \notin Groups /\ row[id] # None => val = v
  OBVIOUS
<1>7. id \in Tags => val = v
  BY Kinds
<1>8. ASSUME id \in Groups, row[id] # None
      PROVE  /\ val = [v EXCEPT !.legacy = row[id].legacy]
             /\ val.legacy = row[id].legacy
  <2>1. v \in GroupRow
    BY <1>8, Kinds
  <2>2. QED
    BY <1>8, <2>1 DEF GroupRow
<1>9. QED
  <2> HIDE DEF val
  <2>1. QED
    BY <1>2, <1>4, <1>5, <1>6, <1>7, <1>8

(* The same for an insertion.                                              *)
LEMMA InsertedAt ==
    ASSUME TablesType, NEW id \in Ids \ Tags, NEW v \in RowOf(id)
    PROVE  /\ RowTable(Inserted(id, v))
           /\ \A i \in Ids : i # id => Inserted(id, v)[i] = row[i]
           /\ Inserted(id, v)[id] # None
           /\ Inserted(id, v)[id].on = v.on
<1> DEFINE val == IF id \in Groups THEN [v EXCEPT !.legacy = {}] ELSE v
<1>1. Inserted(id, v) = [row EXCEPT ![id] = val]
  BY Zenon DEF Inserted
<1>2. /\ \A i \in Ids : i # id => Inserted(id, v)[i] = row[i]
      /\ Inserted(id, v)[id] = val
      /\ Inserted(id, v) = [i \in Ids |-> Inserted(id, v)[i]]
  <2> HIDE DEF val
  <2>1. QED
    BY <1>1, RowFields
<1>3. val \in RowOf(id) /\ val.on = v.on
  <2>1. CASE id \in Groups
    <3>1. v \in GroupRow
      BY <2>1, Kinds
    <3>2. /\ [v EXCEPT !.legacy = {}] \in GroupRow
          /\ [v EXCEPT !.legacy = {}].on = v.on
      BY <3>1 DEF GroupRow
    <3>3. QED
      BY <2>1, <3>2, Kinds
  <2>2. CASE id \notin Groups
    BY <2>2
  <2>3. QED
    BY <2>1, <2>2
<1>4. QED
  <2> HIDE DEF val
  <2>1. \A i \in Ids : Inserted(id, v)[i] \in RowOf(i) \cup {None}
    BY <1>2, <1>3 DEF TablesType, RowTable
  <2>2. RowTable(Inserted(id, v))
    BY <1>2, <2>1, RowTableIntro
  <2>3. val # None
    BY <1>3, NoneApart
  <2>4. QED
    BY <1>2, <1>3, <2>2, <2>3

(* The deletion of an application takes it off every group.                *)
LEMMA AppDeletedAt ==
    ASSUME TablesType, NEW a \in Apps
    PROVE  /\ RowTable(Deleted(a))
           /\ Deleted(a)[a] = None
           /\ \A i \in Ids \ Groups : i # a => Deleted(a)[i] = row[i]
           /\ \A g \in Groups : row[g] = None => Deleted(a)[g] = None
           /\ \A g \in Groups : row[g] # None =>
                /\ Deleted(a)[g] # None
                /\ Deleted(a)[g].parent = row[g].parent
                /\ Deleted(a)[g].on = row[g].on
                /\ Deleted(a)[g].north = row[g].north \ {a}
<1> DEFINE new == Deleted(a)
<1>1. new = [i \in Ids |-> IF i = a THEN None
                           ELSE IF i \in Groups /\ row[i] # None
                           THEN [row[i] EXCEPT !.north = @ \ {a}] ELSE row[i]]
  BY DEF Deleted
<1>2. new = [i \in Ids |-> new[i]] /\ new[a] = None
  BY <1>1, Kinds
<1>3. ASSUME NEW i \in Ids \ Groups, i # a PROVE new[i] = row[i]
  BY <1>1, <1>3
<1>4. ASSUME NEW g \in Groups, row[g] = None PROVE new[g] = None
  BY <1>1, <1>4, Kinds
<1>5. ASSUME NEW g \in Groups, row[g] # None
      PROVE  /\ new[g] \in GroupRow
             /\ new[g].parent = row[g].parent
             /\ new[g].on = row[g].on
             /\ new[g].north = row[g].north \ {a}
  <2>1. new[g] = [row[g] EXCEPT !.north = @ \ {a}]
    BY <1>1, <1>5, Kinds
  <2>2. row[g] \in GroupRow
    BY <1>5, RowFields
  <2>3. QED
    BY <2>1, <2>2 DEF GroupRow
<1>6. \A i \in Ids : new[i] \in RowOf(i) \cup {None}
  BY <1>2, <1>3, <1>4, <1>5, Kinds DEF TablesType, RowTable
<1>7. RowTable(new)
  BY <1>2, <1>6, RowTableIntro
<1>8. QED
  BY <1>2, <1>3, <1>4, <1>5, <1>7, NoneApart, Kinds

(* Any other deletion takes the row and what lies below it: groups of a    *)
(* connection with their tags.                                             *)
Gone(id) == {id} \cup Children(id) \cup UNION {Children(g) : g \in Children(id)}

(* What lies below a row is of the kind that is below it.                  *)
LEMMA DeletedAt ==
    ASSUME TablesType, NEW id \in Ids \ Apps
    PROVE  /\ RowTable(Deleted(id))
           /\ \A i \in Ids : Deleted(id)[i] =
                               IF i \in Gone(id) THEN None ELSE row[i]
           /\ \A i \in Conns \cup Apps : i \in Gone(id) => i = id
           /\ \A g \in Groups :
                g \in Gone(id) /\ g # id => row[g] # None /\ row[g].parent = id
           /\ \A t \in Tags :
                t \in Gone(id) /\ t # id =>
                  row[t] # None /\ row[t].parent \in Gone(id)
<1> DEFINE new == Deleted(id)
<1>1. new = [i \in Ids |-> IF i \in Gone(id) THEN None ELSE row[i]]
  BY DEF Deleted, Without, Gone
<1>2. new = [i \in Ids |-> new[i]]
      /\ \A i \in Ids : new[i] = IF i \in Gone(id) THEN None ELSE row[i]
  BY <1>1
<1>3. \A i \in Ids : new[i] \in RowOf(i) \cup {None}
  BY <1>2 DEF TablesType, RowTable
<1>4. RowTable(new)
  BY <1>2, <1>3, RowTableIntro
<1>5. \A i \in Conns \cup Apps : i \in Gone(id) => i = id
  BY Kinds DEF Gone, Children
<1>6. ASSUME NEW g \in Groups, g \in Gone(id), g # id
      PROVE  row[g] # None /\ row[g].parent = id
  BY <1>6, RowFields, Kinds DEF Gone, Children
<1>7. ASSUME NEW t \in Tags, t \in Gone(id), t # id
      PROVE  row[t] # None /\ row[t].parent \in Gone(id)
  BY <1>7, RowFields, Kinds DEF Gone, Children
<1>8. QED
  BY <1>2, <1>4, <1>5, <1>6, <1>7

(* The tags of a group are the same if none of them has changed.           *)
LEMMA TagsKept ==
    ASSUME NEW g \in Groups,
           \A t \in Tags : \/ row'[t] = row[t]
                           \/ t \notin TagsOf(g) /\ t \notin TagsOf(g)'
    PROVE  GroupRun(g)'.tags = GroupRun(g).tags
<1>1. TagsOf(g)' = TagsOf(g)
  BY DEF TagsOf
<1>2. \A t \in TagsOf(g) : row'[t] = row[t]
  BY DEF TagsOf
<1>3. {<<t, row'[t].val>> : t \in TagsOf(g)'}
         = {<<t, row[t].val>> : t \in TagsOf(g)}
  BY <1>1, <1>2
<1>4. QED
  BY <1>3 DEF GroupRun

(* A transaction: what is not pending after it has the row it had, or none *)
(* that should run.                                                        *)
LEMMA StoreFollows ==
    ASSUME IInv, UNCHANGED <<run, reg>>, pending \subseteq pending',
           \A i \in (Ids \ Tags) \ pending' :
              \/ /\ row'[i] = row[i]
                 /\ i \in Groups => GroupRun(i)'.tags = GroupRun(i).tags
              \/ ~On(i)' /\ run[i] = None
    PROVE  Follows'
<1> SUFFICES ASSUME NEW i \in (Ids \ Tags) \ pending' PROVE Current(i)'
  BY DEF Follows
<1>1. CASE ~On(i)' /\ run[i] = None
  BY <1>1 DEF Current, Wanted
<1>2. CASE /\ row'[i] = row[i]
           /\ i \in Groups => GroupRun(i)'.tags = GroupRun(i).tags
  <2>1. CASE i \in Conns \cup Apps
    BY <1>2, <2>1, PluginKept
  <2>2. CASE i \in Groups
    BY <1>2, <2>2, GroupKept
  <2>3. QED
    BY <2>1, <2>2, Kinds
<1>3. QED
  BY <1>1, <1>2

(* A row is saved.                                                         *)
LEMMA UpsertFollows ==
    ASSUME IInv, NEW id \in Ids, NEW v \in RowOf(id), row' = Upsert(id, v),
           UNCHANGED <<run, reg>>, pending \subseteq pending',
           id \notin Tags => id \in pending',
           id \in Tags => /\ v.parent \in pending'
                          /\ row[id] # None => row[id].parent \in pending'
    PROVE  Follows'
<1>1. \A i \in Ids : i # id => row'[i] = row[i]
  <2>1. TablesType
    BY DEF IInv, TypeOK
  <2>2. \A i \in Ids : i # id => Upsert(id, v)[i] = row[i]
    BY <2>1, UpsertAt
  <2>3. QED
    BY <2>2
<1>2. id \in Tags => row'[id] = v
  BY UpsertAt DEF IInv, TypeOK
<1>3. ASSUME NEW g \in Groups \ pending' PROVE GroupRun(g)'.tags = GroupRun(g).tags
  <2>1. ASSUME NEW t \in Tags, t = id
        PROVE  t \notin TagsOf(g) /\ t \notin TagsOf(g)'
    BY <1>2, <1>3, <2>1 DEF TagsOf
  <2>2. QED
    BY <1>1, <2>1, TagsKept, Kinds
<1>4. QED
  BY <1>1, <1>3, StoreFollows

(* A row is inserted, and reloaded only if it is enabled.                  *)
LEMMA InsertFollows ==
    ASSUME IInv, NEW id \in Ids \ Tags, NEW v \in RowOf(id), row[id] = None,
           row' = Inserted(id, v), UNCHANGED <<run, reg>>,
           pending \subseteq pending',
           v.on => id \in pending'
    PROVE  Follows'
<1>1. \A i \in Ids : i # id => row'[i] = row[i]
  BY InsertedAt DEF IInv, TypeOK
<1>2. \A g \in Groups : GroupRun(g)'.tags = GroupRun(g).tags
  BY <1>1, TagsKept, Kinds
<1>3. id \notin pending' => ~On(id)' /\ run[id] = None
  <2> SUFFICES ASSUME id \notin pending' PROVE ~On(id)' /\ run[id] = None
    OBVIOUS
  <2>1. ~On(id)'
    BY InsertedAt DEF On, IInv, TypeOK
  <2>2. Current(id) /\ ~Wanted(id)
    BY DEF IInv, Follows, Wanted, On
  <2>3. QED
    BY <2>1, <2>2 DEF Current
<1>4. QED
  BY <1>1, <1>2, <1>3, StoreFollows

(* A connection, a group or a tag is deleted.                              *)
LEMMA DeleteFollows ==
    ASSUME IInv, NEW id \in Ids \ Apps, row' = Deleted(id),
           UNCHANGED <<run, reg>>, pending \subseteq pending',
           id \notin Tags => Touched(id) \subseteq pending',
           id \in Tags /\ row[id] # None => row[id].parent \in pending'
    PROVE  Follows'
<1>1. /\ \A i \in Ids : row'[i] = IF i \in Gone(id) THEN None ELSE row[i]
      /\ \A i \in Conns \cup Apps : i \in Gone(id) => i = id
      /\ \A g \in Groups :
                g \in Gone(id) /\ g # id => row[g] # None /\ row[g].parent = id
      /\ \A t \in Tags :
                t \in Gone(id) /\ t # id =>
                  row[t] # None /\ row[t].parent \in Gone(id)
  BY DeletedAt DEF IInv, TypeOK
<1>2. id \notin Tags => id \in pending'
  BY DEF Touched
<1>3. ASSUME NEW g \in Groups \ pending', g \notin Gone(id)
      PROVE  row'[g] = row[g] /\ GroupRun(g)'.tags = GroupRun(g).tags
  <2>1. ASSUME NEW t \in Tags, t \in Gone(id)
        PROVE  t \notin TagsOf(g) /\ t \notin TagsOf(g)'
    BY <1>1, <1>3, <2>1, Kinds DEF TagsOf
  <2>2. QED
    BY <1>1, <1>3, <2>1, TagsKept, Kinds
<1>4. ASSUME NEW g \in Groups \ pending', g \in Gone(id)
      PROVE  ~On(g)' /\ run[g] = None
  <2>1. row'[g] = None
    BY <1>1, <1>4, Kinds
  <2>2. CASE id \in Tags
    <3>1. row[g] # None /\ row[g].parent = id
      BY <1>1, <1>4, <2>2, Kinds
    <3>2. row[g].parent \in Conns
      BY <3>1, ParentConn
    <3>3. QED
      BY <2>2, <3>1, <3>2, Kinds
  <2>3. CASE id \notin Tags
    <3>1. row[g] # None
      BY <1>1, <1>2, <1>4, <2>3
    <3>2. QED
      BY <1>4, <2>1, <2>3, <3>1 DEF Touched, On
  <2>4. QED
    BY <2>2, <2>3
<1>5. ASSUME NEW i \in (Conns \cup Apps) \ pending' PROVE row'[i] = row[i]
  BY <1>1, <1>2, <1>5, Kinds
<1>6. QED
  BY <1>3, <1>4, <1>5, StoreFollows, Kinds

(* An application is deleted.                                              *)
LEMMA AppDeleteFollows ==
    ASSUME IInv, NEW a \in Apps, row' = Deleted(a),
           UNCHANGED <<run, reg>>, pending \subseteq pending', a \in pending'
    PROVE  Follows'
<1> SUFFICES ASSUME NEW i \in (Ids \ Tags) \ pending' PROVE Current(i)'
  BY DEF Follows
<1>1. /\ \A j \in Ids \ Groups : j # a => row'[j] = row[j]
      /\ \A g \in Groups : row[g] = None => row'[g] = None
      /\ \A g \in Groups : row[g] # None =>
           /\ row'[g] # None
           /\ row'[g].parent = row[g].parent
           /\ row'[g].on = row[g].on
           /\ row'[g].north = row[g].north \ {a}
  BY AppDeletedAt DEF IInv, TypeOK
<1>2. CASE i \in Conns \cup Apps
  BY <1>1, <1>2, PluginKept, Kinds
<1>3. CASE i \in Groups
  <2>1. Wanted(i)' <=> Wanted(i)
    BY <1>1, <1>3, Kinds DEF Wanted, CanReload, On
  <2>2. GroupRun(i)'.tags = GroupRun(i).tags
    BY <1>1, <1>3, TagsKept, Kinds
  <2>3. Current(i)
    BY <1>3, Kinds DEF IInv, Follows
  <2>4. CASE ~Wanted(i)
    BY <2>1, <2>3, <2>4 DEF Current
  <2>5. CASE Wanted(i)
    <3>1. row[i] # None
      BY <2>5 DEF Wanted, On
    <3>2. /\ run[i] # None
          /\ run[i].parent = row[i].parent
          /\ run[i].tags = GroupRun(i).tags
          /\ row[i].north \subseteq run[i].north
          /\ run[i].north \subseteq row[i].north \cup pending
      BY <1>3, <2>3, <2>5 DEF Current
    <3>3. QED
      BY <1>1, <1>3, <2>1, <2>2, <2>5, <3>1, <3>2 DEF Current
  <2>6. QED
    BY <2>4, <2>5
<1>4. QED
  BY <1>2, <1>3, Kinds

(* A request moves on, or is told that it is not alone any more.           *)
LEMMA ActiveOpen ==
    ASSUME IInv, NEW r \in Requests, Active(r)
    PROVE  req[r] \in OpenRequest /\ RequestOK(req[r])
BY DEF IInv, TypeOK, RequestsType, RequestsOK, Active, OpenRequest, ClosedRequest

(* A request that moves on keeps what it knows; one that ends forgets it.  *)
LEMMA ReachedAt ==
    ASSUME IInv, NEW r \in Requests, Active(r),
           NEW l \in {"apply", "reapply", "undo", "done", "failed", "broken"}
    PROVE  /\ Reached(r, l).pc = l
           /\ l \in {"done", "failed", "broken"} => Reached(r, l) \in ClosedRequest
           /\ l \in {"apply", "reapply", "undo"} =>
                /\ Reached(r, l) \in OpenRequest
                /\ Reached(r, l).do = req[r].do /\ Reached(r, l).id = req[r].id
                /\ Reached(r, l).new = req[r].new /\ Reached(r, l).was = req[r].was
                /\ Reached(r, l).alone = req[r].alone
<1>1. req[r] \in OpenRequest
  BY ActiveOpen
<1>2. CASE l \in {"done", "failed", "broken"}
  BY <1>2 DEF Reached, ClosedRequest
<1>3. CASE l \in {"apply", "reapply", "undo"}
  <2>1. Reached(r, l) = [req[r] EXCEPT !.pc = l]
    BY <1>3 DEF Reached
  <2>2. QED
    BY <1>1, <1>3, <2>1 DEF OpenRequest
<1>4. QED
  BY <1>2, <1>3

(* Only one request moves.                                                 *)
LEMMA GoAt ==
    ASSUME IInv, NEW r \in Requests, NEW l, Go(r, l)
    PROVE  /\ req' = [p \in Requests |-> req'[p]]
           /\ req'[r] = Reached(r, l)
           /\ \A p \in Requests : p # r => req'[p] = req[p]
BY DEF IInv, TypeOK, RequestsType, Go

(* What every other request keeps.                                         *)
Keeps(p) ==
    /\ req'[p] \in OpenRequest \cup ClosedRequest
    /\ req'[p].pc = req[p].pc
    /\ Active(p) => /\ req'[p] \in OpenRequest
                    /\ req'[p].do = req[p].do /\ req'[p].id = req[p].id
                    /\ req'[p].new = req[p].new /\ req'[p].was = req[p].was

(* A request that moves leaves the others alone.                           *)
LEMMA GoKeeps ==
    ASSUME IInv, NEW r \in Requests, NEW l, Go(r, l)
    PROVE  \A p \in Requests : p # r => Keeps(p) /\ req'[p] = req[p]
BY GoAt, ActiveOpen DEF Keeps, IInv, TypeOK, RequestsType

(* A request that writes tells the others.                                 *)
LEMMA WritesAt ==
    ASSUME IInv, NEW r \in Requests, NEW l, Writes(r, l)
    PROVE  /\ req' = [p \in Requests |-> req'[p]]
           /\ req'[r] = Reached(r, l)
           /\ \A p \in Requests : p # r =>
                Keeps(p) /\ (Active(p) => ~req'[p].alone)
<1>1. req' = [p \in Requests |-> req'[p]] /\ req'[r] = Reached(r, l)
  BY DEF Writes
<1>2. ASSUME NEW p \in Requests, p # r, Active(p)
      PROVE  Keeps(p) /\ ~req'[p].alone
  <2>1. req'[p] = [req[p] EXCEPT !.alone = FALSE]
    BY <1>2 DEF Writes
  <2>2. req[p] \in OpenRequest
    BY <1>2, ActiveOpen
  <2>3. QED
    BY <2>1, <2>2 DEF Keeps, OpenRequest
<1>3. ASSUME NEW p \in Requests, p # r, ~Active(p) PROVE Keeps(p)
  <2>1. req'[p] = req[p]
    BY <1>3 DEF Writes
  <2>2. QED
    BY <1>3, <2>1 DEF Keeps, IInv, TypeOK, RequestsType
<1>4. QED
  BY <1>1, <1>2, <1>3

(* What a request knows stays right as long as it does not move.           *)
LEMMA KeepsOK ==
    ASSUME IInv, NEW p \in Requests, Keeps(p), Active(p)'
    PROVE  RequestOK(req[p])'
<1>1. Active(p)
  BY DEF Active, Keeps
<1>2. RequestOK(req[p])
  BY <1>1, ActiveOpen
<1>3. QED
  BY <1>1, <1>2 DEF Keeps, RequestOK

(* The requests stay as they should if the one that moves does.            *)
LEMMA RequestsKept ==
    ASSUME IInv, NEW r \in Requests, req' = [p \in Requests |-> req'[p]],
           \A p \in Requests : p # r => Keeps(p),
           req'[r] \in OpenRequest \cup ClosedRequest,
           Active(r)' => RequestOK(req[r])'
    PROVE  RequestsType' /\ RequestsOK'
<1>1. RequestsType'
  BY DEF RequestsType, Keeps
<1>2. RequestsOK'
  BY KeepsOK DEF RequestsOK
<1>3. QED
  BY <1>1, <1>2

(* A request that is under way moves on.                                   *)
LEMMA MovedOn ==
    ASSUME IInv, NEW r \in Requests, Active(r),
           NEW l \in {"apply", "reapply", "undo", "done", "failed", "broken"},
           Go(r, l) \/ Writes(r, l),
           req[r].do = "delete" /\ req[r].id \notin Tags =>
              l \notin {"undo", "reapply"},
           req[r].do = "create" /\ req[r].id \notin Tags => l # "reapply"
    PROVE  RequestsType' /\ RequestsOK'
<1>1. /\ req' = [p \in Requests |-> req'[p]]
      /\ req'[r] = Reached(r, l)
      /\ \A p \in Requests : p # r => Keeps(p)
  BY GoAt, GoKeeps, WritesAt
<1>2. req'[r] \in OpenRequest \cup ClosedRequest
  BY <1>1, ReachedAt
<1>3. Active(r)' => RequestOK(req[r])'
  <2>1. SUFFICES ASSUME Active(r)' PROVE RequestOK(req'[r])
    OBVIOUS
  <2>2. RequestOK(req[r])
    BY ActiveOpen
  <2>3. l \in {"apply", "reapply", "undo"} /\ req'[r].pc = l
    BY <1>1, <2>1, ReachedAt DEF Active
  <2>4. /\ req'[r].do = req[r].do /\ req'[r].id = req[r].id
        /\ req'[r].new = req[r].new /\ req'[r].was = req[r].was
    BY <1>1, <2>3, ReachedAt
  <2>5. QED
    BY <2>2, <2>3, <2>4 DEF RequestOK
<1>4. QED
  BY <1>1, <1>2, <1>3, RequestsKept

(* A tag is reloaded with its group, and anything else by itself.          *)
LEMMA TargetType ==
    ASSUME IInv, NEW r \in Requests, Active(r)
    PROVE  /\ req[r].id \in Ids
           /\ Target(r) \in Ids \ Tags
           /\ req[r].id \notin Tags => Target(r) = req[r].id
           /\ req[r].id \in Tags => Target(r) \in Groups
           /\ req[r].id \in Tags /\ req[r].do # "delete" =>
                Target(r) = req[r].new.parent
           /\ req[r].id \in Tags /\ req[r].do # "create" =>
                Target(r) = req[r].was.parent
           /\ req[r].do # "delete" => req[r].new \in RowOf(req[r].id)
           /\ req[r].was # None => req[r].was \in RowOf(req[r].id)
<1> DEFINE q == req[r]
<1>1. q \in OpenRequest /\ RequestOK(q)
  BY ActiveOpen
<1>2. q.id \in Ids /\ q.do \in {"create", "update", "delete"}
  BY <1>1 DEF OpenRequest
<1>3. CASE q.id \notin Tags
  BY <1>1, <1>2, <1>3 DEF Target, RequestOK
<1>4. CASE q.id \in Tags
  <2>1. RowOf(q.id) = TagRow
    BY <1>4, Kinds
  <2>2. q.do # "delete" => q.new \in TagRow
    BY <1>1, <2>1 DEF RequestOK
  <2>3. q.do # "create" => q.was \in TagRow
    BY <1>1, <1>2, <1>4, <2>1 DEF RequestOK
  <2>4. q.do = "update" => q.new.parent = q.was.parent
    BY <1>1, <1>4 DEF RequestOK
  <2>5. Target(r) = IF q.do = "delete" THEN q.was.parent ELSE q.new.parent
    BY <1>4 DEF Target
  <2>6. Target(r) \in Groups
    BY <1>2, <2>2, <2>3, <2>5 DEF TagRow
  <2>7. QED
    BY <1>1, <1>2, <1>4, <2>4, <2>5, <2>6, Kinds DEF RequestOK
<1>5. QED
  BY <1>3, <1>4

(* What a start brings up.                                                 *)
LEMMA BootedAt ==
    ASSUME NEW rows, RowTable(rows), disk \in [Types -> Nat],
           NEW down \in SUBSET Apps
    PROVE  LET f == Booted(rows, down) IN
           /\ RunTable(f)
           /\ \A i \in (Conns \cup Apps) \ down :
                f[i] = IF rows[i] = None \/ ~rows[i].on \/ disk[rows[i].type] = 0
                       THEN None
                       ELSE [type |-> rows[i].type, version |-> disk[rows[i].type]]
           /\ \A g \in Groups :
                f[g] = IF rows[g] = None \/ ~rows[g].on \/ f[rows[g].parent] = None
                       THEN None
                       ELSE [parent |-> rows[g].parent, north |-> rows[g].north,
                             tags |-> {<<t, rows[t].val>> : t \in
                               {u \in Tags : rows[u] # None /\ rows[u].parent = g}}]
<1> DEFINE f == Booted(rows, down)
           first == Ought(rows, disk, Nothing)
           all == Ought(rows, disk, first)
           inst(i) == IF rows[i] = None \/ ~rows[i].on \/ disk[rows[i].type] = 0
                      THEN None
                      ELSE [type |-> rows[i].type, version |-> disk[rows[i].type]]
           tags(g) == {<<t, rows[t].val>> : t \in
                        {u \in Tags : rows[u] # None /\ rows[u].parent = g}}
           grp(g) == [parent |-> rows[g].parent, north |-> rows[g].north,
                      tags |-> tags(g)]
<1>1. f = [i \in Ids |-> IF i \in down THEN None ELSE all[i]]
  BY DEF Booted
<1>2. \A i \in Conns \cup Apps : first[i] = inst(i) /\ all[i] = inst(i)
  BY Kinds DEF Ought
<1>3. \A g \in Groups : all[g] =
        IF rows[g] = None \/ ~rows[g].on \/ first[rows[g].parent] = None
        THEN None ELSE grp(g)
  BY Kinds DEF Ought
<1>4. \A t \in Tags : all[t] = None
  BY Kinds DEF Ought
<1>5. \A i \in (Conns \cup Apps) \ down : f[i] = inst(i)
  BY <1>1, <1>2, Kinds
<1>6. ASSUME NEW g \in Groups
      PROVE  f[g] = IF rows[g] = None \/ ~rows[g].on \/ f[rows[g].parent] = None
                    THEN None ELSE grp(g)
  <2>1. f[g] = all[g]
    BY <1>1, Kinds
  <2>2. CASE rows[g] = None
    BY <1>3, <2>1, <2>2
  <2>3. CASE rows[g] # None
    <3>1. rows[g] \in GroupRow
      BY <2>3, Kinds DEF RowTable
    <3>2. rows[g].parent \in Conns
      BY <3>1 DEF GroupRow
    <3>3. f[rows[g].parent] = first[rows[g].parent]
      BY <1>2, <1>5, <3>2, Kinds
    <3>4. QED
      BY <1>3, <2>1, <3>3
  <2>4. QED
    BY <2>2, <2>3
<1>7. ASSUME NEW i \in Conns \cup Apps,
             ~(rows[i] = None \/ ~rows[i].on \/ disk[rows[i].type] = 0)
      PROVE  inst(i) \in RunInstance
  <2>1. PICK types : RowOf(i) = PluginRow(types) /\ types \subseteq Types
    BY Kinds
  <2>2. rows[i] \in PluginRow(types)
    BY <1>7, <2>1, Kinds DEF RowTable
  <2>3. rows[i].type \in Types
    BY <2>1, <2>2 DEF PluginRow
  <2>4. QED
    BY <1>7, <2>3 DEF RunInstance
<1>8. ASSUME NEW g \in Groups, rows[g] # None PROVE grp(g) \in RunGroup
  <2>1. rows[g] \in GroupRow
    BY <1>8, Kinds DEF RowTable
  <2>2. ASSUME NEW t \in Tags, rows[t] # None PROVE rows[t].val \in Nat
    <3>1. rows[t] \in TagRow
      BY <2>2, Kinds DEF RowTable
    <3>2. QED
      BY <3>1 DEF TagRow
  <2>3. tags(g) \subseteq Tags \X Nat
    BY <2>2
  <2>4. rows[g].parent \in Conns /\ rows[g].north \in SUBSET Apps
    BY <2>1 DEF GroupRow
  <2>5. QED
    <3> HIDE DEF tags
    <3>1. QED
      BY <2>3, <2>4 DEF RunGroup
<1>9. \A i \in Ids : f[i] \in RunOf(i) \cup {None}
  <2> SUFFICES ASSUME NEW i \in Ids PROVE f[i] \in RunOf(i) \cup {None}
    OBVIOUS
  <2> HIDE DEF f, inst, grp, all, first
  <2>1. CASE i \in (Conns \cup Apps) \ down
    <3>1. f[i] = inst(i)
      BY <1>5, <2>1
    <3>2. inst(i) \in RunInstance \cup {None}
      BY <1>7, <2>1 DEF inst
    <3>3. QED
      BY <2>1, <3>1, <3>2, Kinds
  <2>2. CASE i \in down
    BY <1>1, <2>2
  <2>3. CASE i \in Groups
    BY <1>6, <1>8, <2>3, Kinds
  <2>4. CASE i \in Tags
    BY <1>1, <1>4, <2>4, Kinds
  <2>5. QED
    BY <2>1, <2>2, <2>3, <2>4, Kinds
<1>10. f = [i \in Ids |-> f[i]]
  BY <1>1
<1>11. RunTable(f)
  <2> HIDE DEF f
  <2>1. QED
    BY <1>9, <1>10, RunTableIntro
<1>12. QED
  BY <1>5, <1>6, <1>11

(* The first start.                                                        *)
LEMMA InitFollows == Init => TypeOK /\ Follows
<1> SUFFICES ASSUME Init PROVE TypeOK /\ Follows
  OBVIOUS
<1>1. disk \in [Types -> Nat] /\ reg = disk
  BY DEF Init
<1>2. RowTable(row)
  <2>1. \A id \in Ids : row[id] \in RowOf(id) \cup {None}
    BY RowsOK DEF Init
  <2>2. row = [i \in Ids |-> row[i]]
    BY FirstTable DEF Init
  <2>3. QED
    BY <2>1, <2>2, RowTableIntro
<1>3. run = Booted(row, {}) /\ pending = {}
  BY DEF Init
<1>4. /\ RunTable(run)
      /\ \A i \in Conns \cup Apps :
           run[i] = IF row[i] = None \/ ~row[i].on \/ reg[row[i].type] = 0
                    THEN None
                    ELSE [type |-> row[i].type, version |-> reg[row[i].type]]
      /\ \A g \in Groups :
           run[g] = IF row[g] = None \/ ~row[g].on \/ run[row[g].parent] = None
                    THEN None ELSE GroupRun(g)
  <2>1. {} \in SUBSET Apps /\ (Conns \cup Apps) \ {} = Conns \cup Apps
    OBVIOUS
  <2>2. QED
    <3>1. \A g \in Groups :
            GroupRun(g) = [parent |-> row[g].parent, north |-> row[g].north,
                           tags |-> {<<t, row[t].val>> : t \in
                             {u \in Tags : row[u] # None /\ row[u].parent = g}}]
      BY DEF GroupRun, TagsOf
    <3>2. QED
      BY <1>1, <1>2, <1>3, <2>1, <3>1, BootedAt
<1>5. TypeOK
  <2>1. TablesType /\ PluginsType /\ BooksType
    BY <1>1, <1>2, <1>4 DEF TablesType, PluginsType, BooksType, Init
  <2>2. RequestsType
    BY DEF RequestsType, ClosedRequest, Init, Idle
  <2>3. ScansType
    BY DEF ScansType, Init, Resting
  <2>4. QED
    BY <2>1, <2>2, <2>3 DEF TypeOK
<1>6. ASSUME NEW i \in Conns \cup Apps PROVE Current(i)
  <2>1. Wanted(i) <=> ~(row[i] = None \/ ~row[i].on \/ reg[row[i].type] = 0)
    <3>1. row[i] # None => reg[row[i].type] \in Nat
      BY <1>5, RowFields DEF TypeOK, PluginsType
    <3>2. QED
      BY <1>6, <3>1, Kinds DEF Wanted, CanReload, On
  <2>2. QED
    BY <1>4, <2>1, Kinds DEF Current, Instance
<1>7. ASSUME NEW g \in Groups PROVE Current(g)
  <2>1. Wanted(g) <=> ~(row[g] = None \/ ~row[g].on \/ run[row[g].parent] = None)
    BY Kinds DEF Wanted, CanReload, On
  <2>2. CASE ~Wanted(g)
    BY <1>4, <2>1, <2>2 DEF Current
  <2>3. CASE Wanted(g)
    <3>1. run[g] = GroupRun(g)
      BY <1>4, <2>1, <2>3
    <3>2. GroupRun(g) # None
      BY <1>5, <2>1, <2>3, GroupRunType DEF TypeOK
    <3>3. GroupRun(g).parent = row[g].parent /\ GroupRun(g).north = row[g].north
      BY DEF GroupRun
    <3>4. QED
      BY <2>3, <3>1, <3>2, <3>3 DEF Current
  <2>4. QED
    BY <2>2, <2>3
<1>8. QED
  BY <1>5, <1>6, <1>7, Kinds DEF Follows

(* One lemma per action: it preserves IInv.                                *)
LEMMA PluginFrame ==
    ASSUME IInv, UNCHANGED <<disk, reg, scan, changes, restarts>>
    PROVE  PluginsType' /\ ScansType' /\ ScansOK' /\ BuiltinsFixed'
BY DEF IInv, TypeOK, PluginsType, ScansType, ScansOK, BuiltinsFixed, Resting

(* A step that touches no request.                                         *)
LEMMA RequestFrame ==
    ASSUME IInv, UNCHANGED req PROVE RequestsType' /\ RequestsOK'
BY DEF IInv, TypeOK, RequestsType, RequestsOK, Active, RequestOK

(* The parts of IInv in the next state.                                    *)
LEMMA Assembled ==
    ASSUME TablesType', PluginsType', RequestsType', ScansType', BooksType',
           RequestsOK', ScansOK', BuiltinsFixed', Follows'
    PROVE  IInv'
BY DEF IInv, TypeOK

(* A reload, whether it succeeds or not.                                   *)
LEMMA ReloadStep ==
    ASSUME IInv, NEW id \in Ids \ Tags, ReloadSucceeds(id) \/ ReloadFails(id),
           UNCHANGED <<row, reg>>
    PROVE  TablesType' /\ BooksType' /\ Follows'
<1>1. TablesType /\ PluginsType /\ BooksType
  BY DEF IInv, TypeOK
<1>2. Follows'
  BY ReloadSucceedsFollows, ReloadFailsFollows
<1>3. /\ Overtaken(id) \subseteq Groups /\ StartedWith(id) \subseteq Groups
      /\ trouble' \in BOOLEAN
  BY <1>1 DEF Overtaken, Left, BoundAgain, StartedWith, ReloadSucceeds,
      ReloadFails, BooksType
<1>4. BooksType'
  BY <1>1, <1>3, Kinds DEF ReloadSucceeds, ReloadFails, BooksType
<1>5. RunTable(run')
  <2>1. CASE run' = run
    BY <1>1, <2>1 DEF TablesType
  <2>2. CASE run' = Reloaded(id)
    BY <1>1, <2>2, ReloadedType
  <2>3. CASE run' = StartedAlone(id) /\ id \in Conns /\ On(id)
    BY <1>1, <2>3, StartedAt DEF On
  <2>4. QED
    BY <2>1, <2>2, <2>3 DEF ReloadSucceeds, ReloadFails
<1>6. TablesType'
  BY <1>1, <1>5 DEF TablesType
<1>7. QED
  BY <1>2, <1>4, <1>6

(* A handler has read and checked.                                         *)
LEMMA BeginStep ==
    ASSUME IInv, NEW r \in Requests, NEW do \in {"create", "update", "delete"},
           NEW id \in Ids, NEW v \in IF do = "delete" THEN {None} ELSE Sent[id],
           Begin(r, do, id, v)
    PROVE  IInv'
<1>1. UNCHANGED <<row, run, disk, reg, scan, pending, trouble, changes, restarts>>
  BY DEF Begin
<1>2. TablesType' /\ BooksType'
  BY <1>1 DEF IInv, TypeOK, TablesType, BooksType
<1>3. Follows'
  BY <1>1, SameFollows
<1> DEFINE q == [pc |-> "save", do |-> do, id |-> id, new |-> v,
                 was |-> row[id], alone |-> TRUE]
<1>4. req' = [req EXCEPT ![r] = q]
  BY DEF Begin
<1>5. do # "delete" => v \in RowOf(id)
  BY RowsOK
<1>6. do = "delete" => v = None
  OBVIOUS
<1>7. row[id] \in RowOf(id) \cup {None} /\ row[id] \in AnyRow
  BY DEF IInv, TypeOK, TablesType, RowTable
<1>8. v \in AnyRow
  <2>1. RowOf(id) \subseteq AnyRow
    <3>1. PluginRow(DriverTypes) \subseteq PluginRow(Types)
      BY DEF PluginRow, Types
    <3>2. PluginRow(NorthTypes) \subseteq PluginRow(Types)
      BY DEF PluginRow, Types
    <3>3. QED
      BY <3>1, <3>2, Kinds DEF AnyRow
  <2>2. QED
    BY <1>5, <1>6, <2>1 DEF AnyRow
<1>9. q \in OpenRequest
  BY <1>7, <1>8 DEF OpenRequest
<1>10. /\ q.pc = "save" /\ q.do = do /\ q.id = id
       /\ q.new = v /\ q.was = row[id]
  OBVIOUS
<1>11. /\ do = "create" => id \in Tags \/ row[id] = None
       /\ do = "update" => /\ row[id] # None
                           /\ id \in Tags => v.parent = row[id].parent
       /\ do = "delete" => (id \in Tags => row[id] # None)
  BY DEF Begin, MayCreate, MayUpdate, MayDelete
<1>12. RequestOK(q)
  <2> HIDE DEF q
  <2>1. QED
    BY <1>5, <1>7, <1>10, <1>11 DEF RequestOK
<1>13. RequestsType' /\ RequestsOK'
  <2> HIDE DEF q
  <2>1. /\ req' = [p \in Requests |-> req'[p]]
        /\ req'[r] = q
        /\ \A p \in Requests : p # r => req'[p] = req[p]
    BY <1>4 DEF IInv, TypeOK, RequestsType
  <2>2. \A p \in Requests : p # r => Keeps(p)
    BY <2>1, ActiveOpen DEF Keeps, IInv, TypeOK, RequestsType
  <2>3. QED
    BY <1>9, <1>12, <2>1, <2>2, RequestsKept
<1>14. QED
  BY <1>1, <1>2, <1>3, <1>13, PluginFrame, Assembled

(* The transaction of a request.                                           *)
LEMMA SaveStep ==
    ASSUME IInv, NEW r \in Requests, Save(r)
    PROVE  IInv'
<1> DEFINE q == req[r]
<1>1. Active(r)
  BY DEF Save, Active
<1>2. q \in OpenRequest /\ RequestOK(q)
  BY <1>1, ActiveOpen
<1>3. /\ q.id \in Ids
      /\ Target(r) \in Ids \ Tags
      /\ q.id \notin Tags => Target(r) = q.id
      /\ q.id \in Tags => Target(r) \in Groups
      /\ q.id \in Tags /\ q.do # "delete" => Target(r) = q.new.parent
      /\ q.do # "delete" => q.new \in RowOf(q.id)
  BY <1>1, TargetType
<1>4. UNCHANGED <<run, disk, reg, scan, changes, restarts>>
  BY DEF Save
<1>5. TablesType /\ BooksType /\ RunTable(run)'
  BY <1>4 DEF IInv, TypeOK, TablesType
<1>6. \A t \in Tags : row[t] # None => row[t].parent \in Groups
  BY <1>5, RowFields
<1>7. Elsewhere(r) \subseteq Groups
  BY <1>6 DEF Elsewhere
<1>8. q.id \in Tags /\ row[q.id] # None =>
        row[q.id].parent \in {Target(r)} \cup Elsewhere(r)
  BY DEF Elsewhere
<1>9. /\ Touched(Target(r)) \subseteq {Target(r)} \cup Groups
      /\ Target(r) \in Touched(Target(r))
  BY DEF Touched
<1>10. CASE Go(r, "failed") /\ UNCHANGED <<row, pending, trouble>>
  <2>1. RequestsType' /\ RequestsOK'
    BY <1>1, <1>10, MovedOn
  <2>2. TablesType' /\ BooksType'
    BY <1>5, <1>10, <1>4 DEF TablesType, BooksType
  <2>3. Follows'
    BY <1>4, <1>10, SameFollows
  <2>4. QED
    BY <1>4, <2>1, <2>2, <2>3, PluginFrame, Assembled
<1>11. CASE /\ q.do = "create" /\ q.id \notin Tags /\ row[q.id] = None
            /\ row' = Inserted(q.id, q.new)
            /\ Writes(r, IF q.new.on THEN "apply" ELSE "done")
            /\ pending' = IF q.new.on THEN pending \cup {q.id} ELSE pending
            /\ trouble' = (trouble \/ (~q.new.on /\ run[q.id] # None))
  <2>1. RequestsType' /\ RequestsOK'
    BY <1>1, <1>11, MovedOn
  <2>2. TablesType' /\ BooksType'
    BY <1>3, <1>5, <1>11, InsertedAt DEF TablesType, BooksType
  <2>3. Follows'
    BY <1>3, <1>4, <1>11, InsertFollows
  <2>4. QED
    BY <1>4, <2>1, <2>2, <2>3, PluginFrame, Assembled
<1>12. CASE /\ q.do = "update" \/ (q.do = "create" /\ q.id \in Tags)
            /\ row' = Upsert(q.id, q.new)
            /\ Writes(r, "apply")
            /\ pending' = pending \cup {Target(r)} \cup Elsewhere(r)
            /\ trouble' = (trouble \/ Elsewhere(r) # {})
  <2>1. RequestsType' /\ RequestsOK'
    BY <1>1, <1>12, MovedOn
  <2>2. q.new \in RowOf(q.id)
    BY <1>3, <1>12
  <2>3. TablesType' /\ BooksType'
    BY <1>3, <1>5, <1>7, <1>12, <2>2, UpsertAt, Kinds DEF TablesType, BooksType
  <2>4. Follows'
    BY <1>3, <1>4, <1>8, <1>12, <2>2, UpsertFollows
  <2>5. QED
    BY <1>4, <2>1, <2>3, <2>4, PluginFrame, Assembled
<1>13. CASE /\ q.do = "delete"
            /\ row' = Deleted(q.id)
            /\ Writes(r, "apply")
            /\ pending' = pending \cup Touched(Target(r)) \cup Elsewhere(r)
            /\ trouble' = (trouble \/ Elsewhere(r) # {})
  <2>1. RequestsType' /\ RequestsOK'
    BY <1>1, <1>13, MovedOn
  <2>2. TablesType' /\ BooksType'
    <3>1. RowTable(row')
      BY <1>3, <1>5, <1>13, AppDeletedAt, DeletedAt
    <3>2. QED
      BY <1>3, <1>5, <1>7, <1>9, <1>13, <3>1, Kinds DEF TablesType, BooksType
  <2>3. Follows'
    <3>1. CASE q.id \in Apps
      BY <1>3, <1>4, <1>9, <1>13, <3>1, AppDeleteFollows, Kinds
    <3>2. CASE q.id \notin Apps
      <4>1. q.id \notin Tags => Touched(q.id) \subseteq pending'
        BY <1>3, <1>13
      <4>2. q.id \in Tags /\ row[q.id] # None => row[q.id].parent \in pending'
        BY <1>8, <1>9, <1>13
      <4>3. QED
        BY <1>3, <1>4, <1>13, <3>2, <4>1, <4>2, DeleteFollows
    <3>3. QED
      BY <3>1, <3>2
  <2>4. QED
    BY <1>4, <2>1, <2>2, <2>3, PluginFrame, Assembled
<1>14. QED
  BY <1>10, <1>11, <1>12, <1>13 DEF Save

(* The rollback.                                                           *)
LEMMA UndoStep ==
    ASSUME IInv, NEW r \in Requests, Undo(r)
    PROVE  IInv'
<1> DEFINE q == req[r]
           gone == q.do = "create" /\ q.id \notin Tags
<1>1. Active(r) /\ q.pc = "undo"
  BY DEF Undo, Active
<1>2. q \in OpenRequest /\ RequestOK(q)
  BY <1>1, ActiveOpen
<1>3. /\ q.id \in Ids
      /\ Target(r) \in Ids \ Tags
      /\ q.id \notin Tags => Target(r) = q.id
      /\ q.id \in Tags => Target(r) \in Groups
      /\ q.id \in Tags /\ q.do # "create" => Target(r) = q.was.parent
      /\ q.was # None => q.was \in RowOf(q.id)
  BY <1>1, TargetType
<1>4. UNCHANGED <<run, disk, reg, scan, changes, restarts>>
  BY DEF Undo
<1>5. TablesType /\ BooksType /\ RunTable(run)'
  BY <1>4 DEF IInv, TypeOK, TablesType
<1>6. \A t \in Tags : row[t] # None => row[t].parent \in Groups
  BY <1>5, RowFields
<1>7. Elsewhere(r) \subseteq Groups
  BY <1>6 DEF Elsewhere
<1>8. q.id \in Tags /\ row[q.id] # None =>
        row[q.id].parent \in {Target(r)} \cup Elsewhere(r)
  BY DEF Elsewhere
<1>9. /\ Touched(Target(r)) \subseteq {Target(r)} \cup Groups
      /\ Target(r) \in Touched(Target(r))
  BY DEF Touched
<1>10. CASE Go(r, "broken") /\ UNCHANGED <<row, pending, trouble>>
  <2>1. RequestsType' /\ RequestsOK'
    BY <1>1, <1>10, MovedOn
  <2>2. TablesType' /\ BooksType'
    BY <1>5, <1>10, <1>4 DEF TablesType, BooksType
  <2>3. Follows'
    BY <1>4, <1>10, SameFollows
  <2>4. QED
    BY <1>4, <2>1, <2>2, <2>3, PluginFrame, Assembled
<1>11. CASE /\ row' = IF q.do = "create" THEN Deleted(q.id) ELSE Upsert(q.id, q.was)
            /\ Writes(r, IF gone THEN "failed" ELSE "reapply")
            /\ pending' = pending \cup Touched(Target(r)) \cup Elsewhere(r)
            /\ trouble' = (trouble \/ Elsewhere(r) # {})
  <2>1. q.do = "delete" => q.id \in Tags
    BY <1>1, <1>2 DEF RequestOK
  <2>2. RequestsType' /\ RequestsOK'
    BY <1>1, <1>11, <2>1, MovedOn
  <2>3. q.do # "create" => q.was \in RowOf(q.id)
    BY <1>2, <1>3, <2>1 DEF RequestOK, OpenRequest
  <2>4. TablesType' /\ BooksType'
    <3>1. RowTable(row')
      BY <1>3, <1>5, <1>11, <2>3, AppDeletedAt, DeletedAt, UpsertAt
    <3>2. QED
      BY <1>3, <1>5, <1>7, <1>9, <1>11, <3>1, Kinds DEF TablesType, BooksType
  <2>5. q.id \notin Tags => Touched(q.id) \subseteq pending'
    BY <1>3, <1>11
  <2>6. q.id \in Tags /\ row[q.id] # None => row[q.id].parent \in pending'
    BY <1>8, <1>9, <1>11
  <2>7. q.id \notin Tags => q.id \in pending'
    BY <1>3, <1>9, <1>11
  <2>8. Follows'
    <3>1. CASE q.do = "create" /\ q.id \in Apps
      BY <1>3, <1>4, <1>11, <2>7, <3>1, AppDeleteFollows, Kinds
    <3>2. CASE q.do = "create" /\ q.id \notin Apps
      BY <1>3, <1>4, <1>11, <2>5, <2>6, <3>2, DeleteFollows
    <3>3. CASE q.do # "create"
      <4>1. q.id \in Tags => q.was.parent \in pending'
        BY <1>3, <1>9, <1>11, <3>3
      <4>2. QED
        BY <1>3, <1>4, <1>11, <2>3, <2>6, <2>7, <3>3, <4>1, UpsertFollows
    <3>4. QED
      BY <3>1, <3>2, <3>3
  <2>9. QED
    BY <1>4, <2>2, <2>4, <2>8, PluginFrame, Assembled
<1>12. QED
  BY <1>10, <1>11 DEF Undo

(* The reload of a request.                                                *)
LEMMA ApplyStep ==
    ASSUME IInv, NEW r \in Requests, Apply(r)
    PROVE  IInv'
<1> DEFINE q == req[r]
<1>1. Active(r)
  BY DEF Apply, Active
<1>2. Target(r) \in Ids \ Tags
  BY <1>1, TargetType
<1>3. UNCHANGED <<row, disk, reg, scan, changes, restarts>>
  BY DEF Apply
<1>4. TablesType' /\ BooksType' /\ Follows'
  BY <1>2, <1>3, ReloadStep DEF Apply
<1>5. CASE Go(r, "done")
  <2>1. RequestsType' /\ RequestsOK'
    BY <1>1, <1>5, MovedOn
  <2>2. QED
    BY <1>3, <1>4, <2>1, PluginFrame, Assembled
<1>6. CASE Go(r, IF q.do = "delete" /\ q.id \notin Tags THEN "broken" ELSE "undo")
  <2>1. RequestsType' /\ RequestsOK'
    BY <1>1, <1>6, MovedOn
  <2>2. QED
    BY <1>3, <1>4, <2>1, PluginFrame, Assembled
<1>7. QED
  BY <1>5, <1>6 DEF Apply

(* The reload after the rollback.                                          *)
LEMMA ReapplyStep ==
    ASSUME IInv, NEW r \in Requests, Reapply(r)
    PROVE  IInv'
<1>1. Active(r)
  BY DEF Reapply, Active
<1>2. Target(r) \in Ids \ Tags
  BY <1>1, TargetType
<1>3. UNCHANGED <<row, disk, reg, scan, changes, restarts>> /\ Go(r, "failed")
  BY DEF Reapply
<1>4. TablesType' /\ BooksType' /\ Follows'
  BY <1>2, <1>3, ReloadStep DEF Reapply
<1>5. RequestsType' /\ RequestsOK'
  BY <1>1, <1>3, MovedOn
<1>6. QED
  BY <1>3, <1>4, <1>5, PluginFrame, Assembled

(* A reload on demand.                                                     *)
LEMMA ReloadAgainStep ==
    ASSUME IInv, NEW r \in Requests, ReloadAgain(r)
    PROVE  IInv'
<1>1. UNCHANGED <<row, disk, reg, scan, changes, restarts>>
  BY DEF ReloadAgain
<1>2. PICK id \in Groups \cup Apps : \/ ReloadSucceeds(id) /\ Go(r, "done")
                                     \/ ReloadFails(id) /\ Go(r, "failed")
  BY DEF ReloadAgain
<1>3. TablesType' /\ BooksType' /\ Follows'
  BY <1>1, <1>2, ReloadStep, Kinds
<1>4. PICK l \in {"done", "failed"} : Go(r, l)
  BY <1>2
<1>5. req'[r] = [pc |-> l]
  BY <1>4, GoAt DEF Reached
<1>6. req'[r] \in ClosedRequest /\ ~Active(r)'
  BY <1>4, <1>5 DEF ClosedRequest, Active
<1>7. RequestsType' /\ RequestsOK'
  BY <1>4, <1>6, GoAt, GoKeeps, RequestsKept
<1>8. QED
  BY <1>1, <1>3, <1>7, PluginFrame, Assembled

(* The plugin directory changes.                                           *)
LEMMA InstallsStep ==
    ASSUME IInv, NEW p \in Plugins, NEW v \in 0..MaxVersion, Installs(p, v)
    PROVE  IInv'
<1>1. UNCHANGED <<row, run, reg, req, scan, pending, trouble, restarts>>
      /\ disk' = [disk EXCEPT ![p] = v] /\ changes' = changes + 1
  BY DEF Installs
<1>2. v \in Nat
  BY BoundsOK
<1>3. PluginsType' /\ BuiltinsFixed'
  <2>1. disk \in [Types -> Nat] /\ reg \in [Types -> Nat]
        /\ changes \in Nat /\ restarts \in Nat /\ Plugins \subseteq Types
    BY BoundsOK DEF IInv, TypeOK, PluginsType
  <2>2. disk' \in [Types -> Nat]
    BY <1>1, <1>2, <2>1
  <2>3. \A t \in Types \ Plugins : disk'[t] = disk[t] /\ reg[t] = disk[t]
    BY <1>1, <2>1 DEF IInv, BuiltinsFixed
  <2>4. PluginsType'
    BY <1>1, <2>1, <2>2 DEF PluginsType
  <2>5. BuiltinsFixed'
    BY <1>1, <2>3 DEF BuiltinsFixed
  <2>6. QED
    BY <2>4, <2>5
<1>4. TablesType' /\ BooksType' /\ ScansType' /\ ScansOK'
  BY <1>1 DEF IInv, TypeOK, TablesType, BooksType, ScansType, ScansOK, Resting
<1>5. Follows'
  BY <1>1, SameFollows
<1>6. QED
  BY <1>1, <1>3, <1>4, <1>5, RequestFrame, Assembled

(* What a reconciliation works on.                                         *)
ScanRecord == [phase : {"idle", "connections", "applications"}, listed : BOOLEAN,
               types : SUBSET Plugins, removed : SUBSET Plugins,
               todo : SUBSET ((Conns \cup Apps) \X Types)]

(* One reconciliation moves.                                               *)
LEMMA ScansKept ==
    ASSUME IInv, NEW s \in Scanners, NEW x \in ScanRecord,
           scan' = [scan EXCEPT ![s] = x],
           x.phase = "idle" => x = Resting, ~x.listed => x.todo = {}
    PROVE  ScansType' /\ ScansOK'
<1>1. scan \in [Scanners -> ScanRecord]
  BY DEF IInv, TypeOK, ScansType, ScanRecord
<1>2. scan' \in [Scanners -> ScanRecord]
  BY <1>1
<1>3. ScansOK'
  BY <1>1 DEF ScansOK, IInv, Resting
<1>4. QED
  BY <1>2, <1>3 DEF ScansType, ScanRecord

(* A reconciliation that is not under way.                                 *)
LEMMA RestingType == Resting \in ScanRecord /\ Resting.todo = {}
BY DEF Resting, ScanRecord

(* Each reconciliation has the type it should.                             *)
LEMMA ScanAt ==
    ASSUME IInv, NEW s \in Scanners PROVE scan[s] \in ScanRecord
BY DEF IInv, TypeOK, ScansType, ScanRecord

(* A scan of the plugins: what runs of a type that has changed is pending. *)
LEMMA ScanStep ==
    ASSUME IInv, NEW s \in Scanners, Scan(s)
    PROVE  IInv'
<1> DEFINE diff == DiffPlugins
           x == [phase |-> "connections", listed |-> FALSE, types |-> diff,
                 removed |-> {p \in diff : disk[p] = 0}, todo |-> {}]
<1>1. /\ UNCHANGED <<row, run, disk, req, trouble, changes, restarts>>
      /\ reg' = disk
      /\ scan' = [scan EXCEPT ![s] = x]
      /\ pending' = pending
           \cup {id \in Conns \cup Apps : On(id) /\ row[id].type \in diff}
  BY DEF Scan
<1>2. diff \subseteq Plugins
  BY DEF DiffPlugins
<1>3. x \in ScanRecord /\ x.phase # "idle" /\ x.todo = {}
  BY <1>2 DEF ScanRecord
<1>4. ScansType' /\ ScansOK'
  <2> HIDE DEF x
  <2>1. QED
    BY <1>1, <1>3, ScansKept
<1>5. PluginsType' /\ BuiltinsFixed'
  BY <1>1 DEF IInv, TypeOK, PluginsType, BuiltinsFixed
<1>6. TablesType' /\ BooksType'
  BY <1>1, Kinds DEF IInv, TypeOK, TablesType, BooksType
<1>7. Follows'
  <2> SUFFICES ASSUME NEW i \in (Ids \ Tags) \ pending' PROVE Current(i)'
    BY DEF Follows
  <2>1. CASE i \in Conns \cup Apps
    <3>1. Current(i)
      BY <1>1, Kinds DEF IInv, Follows
    <3>2. On(i) => reg'[row[i].type] = reg[row[i].type]
      <4> SUFFICES ASSUME On(i) PROVE reg'[row[i].type] = reg[row[i].type]
        OBVIOUS
      <4>1. row[i].type \in Types /\ row[i].type \notin diff
        BY <1>1, <2>1, RowFields DEF IInv, TypeOK, On
      <4>2. QED
        BY <1>1, <4>1 DEF DiffPlugins, IInv, BuiltinsFixed
    <3>3. QED
      BY <1>1, <2>1, <3>1, <3>2, Kinds DEF Current, Wanted, CanReload,
         On, Instance
  <2>2. CASE i \in Groups
    BY <1>1, <2>2, GroupKept, SameTags, Kinds
  <2>3. QED
    BY <2>1, <2>2, Kinds
<1>8. QED
  BY <1>1, <1>4, <1>5, <1>6, <1>7, RequestFrame, Assembled

(* The rows of the changed types are listed.                               *)
LEMMA ListStep ==
    ASSUME IInv, NEW s \in Scanners, List(s)
    PROVE  IInv'
<1>1. UNCHANGED <<row, run, disk, reg, req, pending, trouble, changes, restarts>>
  BY DEF List
<1>2. PICK ids \in {Conns, Apps} : Lists(s, ids)
  BY DEF List
<1> DEFINE todo == {<<i, row[i].type>> : i \in
                     {j \in ids : On(j) /\ row[j].type \in scan[s].types}}
           x == [scan[s] EXCEPT !.listed = TRUE, !.todo = todo]
<1>3. todo \subseteq (Conns \cup Apps) \X Types
  BY <1>2, RowFields DEF IInv, TypeOK, On
<1>4. scan' = [scan EXCEPT ![s] = x]
  BY <1>2 DEF Lists
<1>5. scan[s].phase # "idle"
  BY DEF List
<1>6. x \in ScanRecord /\ x.phase # "idle" /\ x.listed
  <2> HIDE DEF todo
  <2>1. QED
    BY <1>3, <1>5, ScanAt DEF ScanRecord
<1>7. ScansType' /\ ScansOK'
  <2> HIDE DEF x
  <2>1. QED
    BY <1>4, <1>6, ScansKept
<1>8. PluginsType' /\ BuiltinsFixed' /\ TablesType' /\ BooksType'
  BY <1>1 DEF IInv, TypeOK, PluginsType, BuiltinsFixed, TablesType, BooksType
<1>9. QED
  BY <1>1, <1>7, <1>8, SameFollows, RequestFrame, Assembled

(* The list has been worked off.                                           *)
LEMMA ListDoneStep ==
    ASSUME IInv, NEW s \in Scanners, ListDone(s)
    PROVE  IInv'
<1>1. UNCHANGED <<row, run, disk, reg, req, pending, trouble, changes, restarts>>
  BY DEF ListDone
<1> DEFINE x == IF scan[s].phase = "connections"
                THEN [scan[s] EXCEPT !.phase = "applications", !.listed = FALSE]
                ELSE Resting
<1>2. scan' = [scan EXCEPT ![s] = x]
  BY DEF ListDone
<1>3. x \in ScanRecord /\ (x.phase = "idle" => x = Resting) /\ x.todo = {}
  BY ScanAt, RestingType DEF ScanRecord, ListDone
<1>4. ScansType' /\ ScansOK'
  <2> HIDE DEF x
  <2>1. QED
    BY <1>2, <1>3, ScansKept
<1>5. PluginsType' /\ BuiltinsFixed' /\ TablesType' /\ BooksType'
  BY <1>1 DEF IInv, TypeOK, PluginsType, BuiltinsFixed, TablesType, BooksType
<1>6. QED
  BY <1>1, <1>4, <1>5, SameFollows, RequestFrame, Assembled

(* An entry of the list is dealt with.                                     *)
LEMMA DealtKeeps ==
    ASSUME IInv, NEW s \in Scanners, scan[s].listed, NEW e, Dealt(s, e)
    PROVE  ScansType' /\ ScansOK'
<1> DEFINE x == [scan[s] EXCEPT !.todo = @ \ {e}]
<1>1. scan' = [scan EXCEPT ![s] = x]
  BY DEF Dealt
<1>2. scan[s].phase # "idle"
  BY DEF IInv, ScansOK, Resting
<1>3. x \in ScanRecord /\ x.phase # "idle" /\ x.listed
  BY <1>2, ScanAt DEF ScanRecord
<1>4. QED
  <2> HIDE DEF x
  <2>1. QED
    BY <1>1, <1>3, ScansKept

(* A list names connections and applications.                              *)
LEMMA EntryType ==
    ASSUME IInv, NEW s \in Scanners, NEW e \in scan[s].todo
    PROVE  e[1] \in Conns \cup Apps /\ e[1] \in Ids \ Tags
<1>1. e \in (Conns \cup Apps) \X Types
  BY ScanAt DEF ScanRecord
<1>2. QED
  BY <1>1, Kinds

(* An instance is stopped because its type was removed.                    *)
LEMMA ReconcileStopsStep ==
    ASSUME IInv, NEW s \in Scanners, ReconcileStops(s)
    PROVE  IInv'
<1>1. UNCHANGED <<row, disk, reg, req, changes, restarts>> /\ scan[s].listed
  BY DEF ReconcileStops
<1>2. PICK e \in scan[s].todo :
        LET id == e[1] IN
        /\ run' = Stopped({id} \cup RunningOn(id))
        /\ pending' =
             (IF row[id] = None THEN pending
              ELSE IF Wanted(id) THEN pending \cup {id} \cup Astray(id)
              ELSE (pending \ {id}) \cup Astray(id)) \ StoppedWith(id)
        /\ trouble' = (trouble \/ Wanted(id) \/ Astray(id) # {})
        /\ Dealt(s, e)
  BY DEF ReconcileStops
<1> DEFINE id == e[1]
<1>3. id \in Conns \cup Apps /\ id \in Ids \ Tags
  BY EntryType
<1>4. /\ run' = Stopped({id} \cup RunningOn(id))
      /\ pending' =
           (IF row[id] = None THEN pending
            ELSE IF Wanted(id) THEN pending \cup {id} \cup Astray(id)
            ELSE (pending \ {id}) \cup Astray(id)) \ StoppedWith(id)
      /\ trouble' = (trouble \/ Wanted(id) \/ Astray(id) # {})
  BY <1>2
<1> HIDE DEF id
<1>5. ScansType' /\ ScansOK'
  BY <1>1, <1>2, DealtKeeps
<1>6. Astray(id) \subseteq Groups /\ StoppedWith(id) \subseteq Groups
  BY DEF Astray, Left, StoppedWith, RunningOn
<1>7. TablesType' /\ BooksType'
  <2>1. RunTable(run')
    BY <1>4, StoppedType DEF IInv, TypeOK
  <2>2. QED
    BY <1>1, <1>3, <1>4, <1>6, <2>1, Kinds DEF IInv, TypeOK, TablesType,
       BooksType
<1>8. Follows'
  <2>1. CASE id \in Conns
    <3>1. pending \ ({id} \cup StoppedWith(id)) \subseteq pending'
      BY <1>4
    <3>2. id \notin pending' => ~Wanted(id) \/ row[id] = None
      BY <1>4, <1>6, <2>1, Kinds
    <3>3. QED
      BY <1>1, <1>4, <2>1, <3>1, <3>2, ConnDownFollows
  <2>2. CASE id \in Apps
    <3>1. RunningOn(id) = {} /\ StoppedWith(id) = {}
      BY <2>2, RunFields, Kinds DEF RunningOn, StoppedWith, IInv, TypeOK
    <3>2. run' = [j \in Ids |-> IF j = id THEN None ELSE run[j]]
      BY <1>4, <3>1 DEF Stopped
    <3>3. run'[id] = None
      BY <3>2, <1>3
    <3>4. CASE row[id] # None
      <4>1. /\ pending \ {id} \subseteq pending'
            /\ Left(id) \subseteq pending'
            /\ id \notin pending' => ~Wanted(id)
        BY <1>4, <2>2, <3>1, <3>4 DEF Astray
      <4>2. id \notin pending' => Current(id)'
        BY <1>1, <2>2, <3>3, <4>1, Kinds DEF Current, Wanted, CanReload, On
      <4>3. run' = [j \in Ids |-> IF j = id THEN run'[id] ELSE run[j]]
        BY <3>2, <3>3
      <4>4. QED
        BY <1>1, <2>2, <3>4, <4>1, <4>2, <4>3, AppReloadFollows
    <3>5. CASE row[id] = None
      <4> SUFFICES ASSUME NEW i \in (Ids \ Tags) \ pending' PROVE Current(i)'
        BY DEF Follows
      <4>1. pending' = pending
        BY <1>4, <3>1, <3>5
      <4>2. CASE i = id
        BY <1>1, <3>3, <3>5, <4>2 DEF Current, Wanted, On
      <4>3. CASE i \in Conns \cup Apps /\ i # id
        BY <1>1, <3>2, <4>1, <4>3, PluginKept, Kinds
      <4>4. CASE i \in Groups
        <5>1. run'[i] = run[i]
          BY <2>2, <3>2, <4>4, Kinds
        <5>2. On(i) => run'[row[i].parent] = run[row[i].parent]
          BY <2>2, <3>2, <4>4, ParentConn, Kinds DEF On
        <5>3. QED
          BY <1>1, <4>1, <4>4, <5>1, <5>2, GroupKept, SameTags, Kinds
      <4>5. QED
        BY <4>2, <4>3, <4>4, Kinds
    <3>6. QED
      BY <3>4, <3>5
  <2>3. QED
    BY <1>3, <2>1, <2>2
<1>9. PluginsType' /\ BuiltinsFixed'
  BY <1>1 DEF IInv, TypeOK, PluginsType, BuiltinsFixed
<1>10. QED
  BY <1>1, <1>5, <1>7, <1>8, <1>9, RequestFrame, Assembled

(* An instance is reloaded because its type was replaced.                  *)
LEMMA ReconcileReloadsStep ==
    ASSUME IInv, NEW s \in Scanners, ReconcileReloads(s)
    PROVE  IInv'
<1>1. UNCHANGED <<row, disk, reg, req, changes, restarts>> /\ scan[s].listed
  BY DEF ReconcileReloads
<1>2. PICK e \in scan[s].todo : ReloadSucceeds(e[1]) /\ Dealt(s, e)
  BY DEF ReconcileReloads
<1>3. TablesType' /\ BooksType' /\ Follows'
  BY <1>1, <1>2, EntryType, ReloadStep
<1>4. ScansType' /\ ScansOK'
  BY <1>1, <1>2, DealtKeeps
<1>5. PluginsType' /\ BuiltinsFixed'
  BY <1>1 DEF IInv, TypeOK, PluginsType, BuiltinsFixed
<1>6. QED
  BY <1>1, <1>3, <1>4, <1>5, RequestFrame, Assembled

(* The reconciliation ends with the first error.                           *)
LEMMA AbandonStep ==
    ASSUME IInv, NEW s \in Scanners, Abandon(s)
    PROVE  IInv'
<1>1. /\ UNCHANGED <<row, disk, reg, req, changes, restarts>>
      /\ scan' = [scan EXCEPT ![s] = Resting]
  BY DEF Abandon
<1>2. PICK e \in scan[s].todo : ReloadFails(e[1])
  BY DEF Abandon
<1>3. TablesType' /\ BooksType' /\ Follows'
  BY <1>1, <1>2, EntryType, ReloadStep
<1>4. ScansType' /\ ScansOK'
  BY <1>1, RestingType, ScansKept
<1>5. PluginsType' /\ BuiltinsFixed'
  BY <1>1 DEF IInv, TypeOK, PluginsType, BuiltinsFixed
<1>6. QED
  BY <1>1, <1>3, <1>4, <1>5, RequestFrame, Assembled

(* The migration touches nothing but the bindings of groups.               *)
LEMMA MigratedAt ==
    ASSUME TablesType
    PROVE  /\ RowTable(Migrated)
           /\ \A i \in Ids \ Groups : Migrated[i] = row[i]
           /\ \A g \in Groups : Migrated[g] = None <=> row[g] = None
<1> DEFINE new == Migrated
<1>1. new = [i \in Ids |-> new[i]]
  BY DEF Migrated
<1>2. ASSUME NEW i \in Ids \ Groups PROVE new[i] = row[i]
  BY <1>2 DEF Migrated
<1>3. ASSUME NEW g \in Groups, row[g] = None PROVE new[g] = None
  BY <1>3, Kinds DEF Migrated
<1>4. ASSUME NEW g \in Groups, row[g] # None PROVE new[g] \in GroupRow
  <2>1. new[g] = [row[g] EXCEPT !.north = @ \cup row[g].legacy]
    BY <1>4, Kinds DEF Migrated
  <2>2. row[g] \in GroupRow
    BY <1>4, RowFields
  <2>3. QED
    BY <2>1, <2>2 DEF GroupRow
<1>5. \A i \in Ids : new[i] \in RowOf(i) \cup {None}
  BY <1>2, <1>3, <1>4, Kinds DEF TablesType, RowTable
<1>6. \A g \in Groups : GroupRow = RowOf(g)
  BY Kinds
<1>7. QED
  BY <1>1, <1>2, <1>3, <1>4, <1>5, <1>6, RowTableIntro, NoneApart, Kinds

(* A crash and a start.                                                    *)
LEMMA RestartStep ==
    ASSUME IInv, Restart
    PROVE  IInv'
<1>1. /\ restarts' = restarts + 1
      /\ row' = Migrated
      /\ reg' = disk
      /\ req' = [r \in Requests |->
                   IF req[r] = Idle THEN Idle ELSE [pc |-> "broken"]]
      /\ scan' = [s \in Scanners |-> Resting]
      /\ UNCHANGED <<disk, changes>>
  BY DEF Restart
<1>2. PICK down \in SUBSET {a \in Apps : On(a) /\ row[a].type \in Plugins} :
        /\ run' = Booted(Migrated, down)
        /\ pending' = down /\ trouble' = (down # {})
  BY DEF Restart
<1>3. down \in SUBSET Apps
  OBVIOUS
<1>4. RowTable(row') /\ disk \in [Types -> Nat]
  BY <1>1, MigratedAt DEF IInv, TypeOK, PluginsType
<1>5. /\ RunTable(run')
      /\ \A i \in (Conns \cup Apps) \ down :
           run'[i] = IF row'[i] = None \/ ~row'[i].on \/ reg'[row'[i].type] = 0
                     THEN None
                     ELSE [type |-> row'[i].type, version |-> reg'[row'[i].type]]
      /\ \A g \in Groups :
           run'[g] = IF row'[g] = None \/ ~row'[g].on \/ run'[row'[g].parent] = None
                     THEN None ELSE GroupRun(g)'
  <2>1. \A g \in Groups :
          GroupRun(g)' = [parent |-> row'[g].parent, north |-> row'[g].north,
                          tags |-> {<<t, row'[t].val>> : t \in
                            {u \in Tags : row'[u] # None /\ row'[u].parent = g}}]
    BY DEF GroupRun, TagsOf
  <2>2. run' = Booted(row', down)
    BY <1>1, <1>2
  <2>3. QED
    BY <1>1, <1>3, <1>4, <2>1, <2>2, BootedAt
<1>6. TablesType'
  BY <1>4, <1>5 DEF TablesType
<1>7. PluginsType' /\ BuiltinsFixed' /\ BooksType'
  BY <1>1, <1>2, <1>3, Kinds DEF IInv, TypeOK, PluginsType, BuiltinsFixed,
     BooksType
<1>8. RequestsType' /\ RequestsOK'
  BY <1>1 DEF RequestsType, RequestsOK, ClosedRequest, Idle, Active
<1>9. ScansType' /\ ScansOK'
  <2>1. scan' \in [Scanners -> ScanRecord]
    BY <1>1, RestingType
  <2>2. QED
    BY <1>1, <2>1, RestingType DEF ScansType, ScansOK, ScanRecord
<1>10. ASSUME NEW i \in (Conns \cup Apps) \ pending' PROVE Current(i)'
  <2>1. Wanted(i)' <=> ~(row'[i] = None \/ ~row'[i].on \/ reg'[row'[i].type] = 0)
    <3>1. row'[i] # None => reg'[row'[i].type] \in Nat
      <4>1. row'[i] = row[i]
        BY <1>1, <1>10, MigratedAt, Kinds DEF IInv, TypeOK
      <4>2. QED
        BY <1>1, <1>4, <1>10, <4>1, RowFields DEF IInv, TypeOK
    <3>2. QED
      BY <1>10, <3>1, Kinds DEF Wanted, CanReload, On
  <2>2. QED
    BY <1>2, <1>5, <1>10, <2>1, Kinds DEF Current, Instance
<1>11. ASSUME NEW g \in Groups PROVE Current(g)'
  <2>1. Wanted(g)' <=>
          ~(row'[g] = None \/ ~row'[g].on \/ run'[row'[g].parent] = None)
    BY Kinds DEF Wanted, CanReload, On
  <2>2. CASE ~Wanted(g)'
    BY <1>5, <2>1, <2>2 DEF Current
  <2>3. CASE Wanted(g)'
    <3>1. run'[g] = GroupRun(g)'
      BY <1>5, <2>1, <2>3
    <3>2. row'[g].parent \in Conns /\ row'[g].north \in SUBSET Apps
      <4>1. row'[g] \in GroupRow
        BY <1>4, <2>1, <2>3, Kinds DEF RowTable
      <4>2. QED
        BY <4>1 DEF GroupRow
    <3>3. {<<t, row'[t].val>> : t \in TagsOf(g)'} \subseteq Tags \X Nat
      <4>1. ASSUME NEW t \in Tags, row'[t] # None PROVE row'[t].val \in Nat
        <5>1. row'[t] \in TagRow
          BY <1>4, <4>1, Kinds DEF RowTable
        <5>2. QED
          BY <5>1 DEF TagRow
      <4>2. QED
        BY <4>1 DEF TagsOf
    <3>4. GroupRun(g)' \in RunGroup
      BY <3>2, <3>3 DEF GroupRun, RunGroup
    <3>5. GroupRun(g)' # None
      BY <3>4, NoneApart
    <3>6. GroupRun(g)'.parent = row'[g].parent /\ GroupRun(g)'.north = row'[g].north
      BY DEF GroupRun
    <3>7. QED
      BY <2>3, <3>1, <3>5, <3>6 DEF Current
  <2>4. QED
    BY <2>2, <2>3
<1>12. Follows'
  BY <1>10, <1>11, Kinds DEF Follows
<1>13. QED
  BY <1>6, <1>7, <1>8, <1>9, <1>12, Assembled

(* What is not waiting to be applied is current, at every moment.          *)
THEOREM Inductive == Spec => []IInv
<1>1. Init => IInv
  <2> SUFFICES ASSUME Init PROVE IInv
    OBVIOUS
  <2>1. RequestsOK /\ ScansOK /\ BuiltinsFixed
    BY DEF RequestsOK, ScansOK, BuiltinsFixed, Init, Active, Idle, Resting
  <2>2. QED
    BY <2>1, InitFollows DEF IInv
<1>2. IInv /\ [Next]_vars => IInv'
  <2> SUFFICES ASSUME IInv, [Next]_vars PROVE IInv'
    OBVIOUS
  <2>1. ASSUME NEW r \in Requests, Request(r) PROVE IInv'
    BY <2>1, BeginStep, SaveStep, ApplyStep, UndoStep, ReapplyStep,
       ReloadAgainStep DEF Request
  <2>2. ASSUME NEW s \in Scanners, Reconcile(s) PROVE IInv'
    BY <2>2, ScanStep, ListStep, ListDoneStep, ReconcileStopsStep,
       ReconcileReloadsStep, AbandonStep DEF Reconcile
  <2>3. ASSUME NEW p \in Plugins, NEW v \in 0..MaxVersion, Installs(p, v)
        PROVE  IInv'
    BY <2>3, InstallsStep
  <2>4. CASE Restart
    BY <2>4, RestartStep
  <2>5. CASE UNCHANGED vars
    <3>1. UNCHANGED <<row, run, disk, reg, req, scan, pending, trouble,
                      changes, restarts>>
      BY <2>5 DEF vars
    <3>2. TablesType' /\ BooksType'
      BY <3>1 DEF IInv, TypeOK, TablesType, BooksType
    <3>3. QED
      BY <3>1, <3>2, PluginFrame, RequestFrame, SameFollows, Assembled
  <2>6. QED
    BY <2>1, <2>2, <2>3, <2>4, <2>5 DEF Next
<1>3. QED
  BY <1>1, <1>2, PTL DEF Spec

(* Every variable has its type.                                            *)
THEOREM Typed == Spec => []TypeOK
<1>1. IInv => TypeOK
  BY DEF IInv
<1>2. QED
  BY Inductive, <1>1, PTL

(* What should run, seen from the instances that run.                      *)
LEMMA OughtAt ==
    /\ \A t \in Tags : Ought(row, reg, run)[t] = None
    /\ \A i \in Conns \cup Apps : Ought(row, reg, run)[i] =
         IF row[i] = None \/ ~row[i].on \/ reg[row[i].type] = 0
         THEN None ELSE Instance(i)
    /\ \A g \in Groups : Ought(row, reg, run)[g] =
         IF row[g] = None \/ ~row[g].on \/ run[row[g].parent] = None
         THEN None ELSE GroupRun(g)
<1>1. \A t \in Tags : Ought(row, reg, run)[t] = None
  BY Kinds DEF Ought
<1>2. ASSUME NEW i \in Conns \cup Apps
      PROVE  Ought(row, reg, run)[i] =
               IF row[i] = None \/ ~row[i].on \/ reg[row[i].type] = 0
               THEN None ELSE Instance(i)
  BY Kinds DEF Ought, Instance
<1>3. ASSUME NEW g \in Groups
      PROVE  Ought(row, reg, run)[g] =
               IF row[g] = None \/ ~row[g].on \/ run[row[g].parent] = None
               THEN None ELSE GroupRun(g)
  BY Kinds DEF Ought, GroupRun, TagsOf
<1>4. QED
  BY <1>1, <1>2, <1>3

(* Every connection, application and group that is not waiting to be       *)
(* applied runs as the rows and the registries say, for any number of      *)
(* requests and reconciliations, however they interleave with crashes.     *)
THEOREM Follow == Spec => []FollowsRows
<1>1. IInv => FollowsRows
  <2> SUFFICES ASSUME IInv, NEW id \in Ids \ pending
               PROVE  LET should == Ought(row, reg, run)[id] IN
                      IF id \in Groups /\ run[id] # None /\ should # None
                      THEN SameGroup(run[id], should) ELSE run[id] = should
    BY DEF FollowsRows
  <2> DEFINE should == Ought(row, reg, run)[id]
  <2>1. CASE id \in Tags
    BY <2>1, OughtAt, RunFields, Kinds DEF IInv, TypeOK
  <2>2. CASE id \in Conns \cup Apps
    <3>1. Current(id)
      BY <2>2, Kinds DEF IInv, Follows
    <3>2. row[id] # None => reg[row[id].type] \in Nat
      BY <2>2, RowFields DEF IInv, TypeOK, PluginsType
    <3>3. Wanted(id) <=> ~(row[id] = None \/ ~row[id].on \/ reg[row[id].type] = 0)
      BY <2>2, <3>2, Kinds DEF Wanted, CanReload, On
    <3>4. QED
      BY <2>2, <3>1, <3>3, OughtAt, Kinds DEF Current
  <2>3. CASE id \in Groups
    <3>1. Current(id)
      BY <2>3, Kinds DEF IInv, Follows
    <3>2. Wanted(id) <=>
            ~(row[id] = None \/ ~row[id].on \/ run[row[id].parent] = None)
      BY <2>3, Kinds DEF Wanted, CanReload, On
    <3>3. CASE ~Wanted(id)
      BY <2>3, <3>1, <3>2, <3>3, OughtAt DEF Current
    <3>4. CASE Wanted(id)
      <4>1. should = GroupRun(id)
        BY <2>3, <3>2, <3>4, OughtAt
      <4>2. /\ GroupRun(id).parent = row[id].parent
            /\ GroupRun(id).north = row[id].north
        BY DEF GroupRun
      <4>3. GroupRun(id) # None
        BY <2>3, <3>4, GroupRunType DEF Wanted, On, IInv, TypeOK
      <4>4. SameGroup(run[id], GroupRun(id))
        BY <2>3, <3>1, <3>4, <4>2 DEF Current, SameGroup
      <4>5. QED
        BY <2>3, <3>1, <3>4, <4>1, <4>3, <4>4 DEF Current
    <3>5. QED
      BY <3>3, <3>4
  <2>4. QED
    BY <2>1, <2>2, <2>3, Kinds
<1>2. QED
  BY Inductive, <1>1, PTL

(* What is waiting to be applied stays somebody's to apply.                *)
LEMMA AppliesKept ==
    ASSUME IInv, NEW p \in Requests, NEW j, Keeps(p), Applies(p, j)
    PROVE  Applies(p, j)'
BY DEF Keeps, Applies, Active, Target

(* A step that neither reloads nor stops anything.                         *)
LEMMA CoverKept ==
    ASSUME IInv, NEW i \in Ids, Covered(i),
           NEW r \in Requests, req[r].pc # "apply",
           \A p \in Requests : p # r => Keeps(p),
           UNCHANGED <<run, scan>>,
           \/ Applies(r, i)'
           \/ /\ i \in Groups /\ row[i] = None /\ run[i] # None => row'[i] = None
              /\ i \in Conns \cup Apps /\ row[i] # None => row'[i] = row[i]
    PROVE  Covered(i)'
<1>1. \A j : \A p \in Requests : Applies(p, j) => Applies(p, j)'
  BY AppliesKept DEF Applies
<1>2. CASE Applies(r, i)'
  BY <1>2 DEF Covered
<1>3. CASE \E p \in Requests : Applies(p, i)
  BY <1>1, <1>3 DEF Covered
<1>4. CASE /\ ~Applies(r, i)'
           /\ i \in Groups /\ row[i] = None /\ run[i] # None
           /\ \E p \in Requests : Applies(p, run[i].parent)
  <2>1. PICK p \in Requests : Applies(p, run[i].parent)
    BY <1>4
  <2>2. run'[i] = run[i] /\ row'[i] = None
    BY <1>4
  <2>3. PICK c : c = run[i].parent
    OBVIOUS
  <2>4. Applies(p, c)'
    BY <1>1, <2>1, <2>3
  <2>5. QED
    BY <1>4, <2>2, <2>3, <2>4 DEF Covered
<1>5. CASE /\ ~Applies(r, i)'
           /\ i \in Conns \cup Apps /\ row[i] # None
           /\ \E s \in Scanners : Deals(s, i)
  BY <1>5 DEF Covered, Deals, WillList, On
<1>6. QED
  BY <1>2, <1>3, <1>4, <1>5 DEF Covered

(* A reload that leaves no trouble behind: what it has not applied has     *)
(* somebody else who will.                                                 *)
LEMMA ReloadCovers ==
    ASSUME IInv, Untroubled, NEW id \in Ids \ Tags, ReloadSucceeds(id),
           UNCHANGED row, ~trouble',
           \A j : \A p \in Requests : j # id /\ Applies(p, j) => Applies(p, j)',
           \A j : \A s \in Scanners : j # id /\ Deals(s, j) => Deals(s, j)'
    PROVE  \A i \in pending' : Covered(i)'
<1> SUFFICES ASSUME NEW i \in pending' PROVE Covered(i)'
  OBVIOUS
<1>1. ~trouble /\ Overtaken(id) = {} /\ run' = Reloaded(id)
  BY DEF ReloadSucceeds
<1>2. i \in pending /\ i # id /\ i \notin Along(id)
  BY <1>1 DEF ReloadSucceeds
<1>3. Covered(i)
  BY <1>1, <1>2 DEF Untroubled
<1>4. CASE \E p \in Requests : Applies(p, i)
  BY <1>2, <1>4 DEF Covered
<1>5. CASE /\ i \in Groups /\ row[i] = None /\ run[i] # None
           /\ \E p \in Requests : Applies(p, run[i].parent)
  <2>1. PICK p \in Requests : Applies(p, run[i].parent)
    BY <1>5
  <2>2. run[i].parent \in Conns
    BY <1>5, RunFields DEF IInv, TypeOK
  <2>3. run[i].parent # id
    <3> SUFFICES ASSUME run[i].parent = id PROVE FALSE
      OBVIOUS
    <3>1. CASE On(id)
      <4>1. i \in Left(id)
        BY <1>5 DEF Left, Refers
      <4>2. Overtaken(id) = Left(id)
        BY <2>2, <3>1, Kinds DEF Overtaken
      <4>3. QED
        BY <1>1, <4>1, <4>2
    <3>2. CASE ~On(id)
      <4>1. i \in StoppedWith(id)
        BY <1>5 DEF StoppedWith, RunningOn
      <4>2. QED
        BY <1>2, <2>2, <3>2, <4>1 DEF Along
    <3>3. QED
      BY <3>1, <3>2
  <2>4. run'[i] # None /\ run'[i].parent = run[i].parent
    <3>1. TablesType /\ PluginsType
      BY DEF IInv, TypeOK
    <3>2. CASE On(id) /\ id \in Conns
      <4>1. run' = ConnectionUp(id) /\ row[id] # None
        BY <1>1, <3>2, Kinds DEF Reloaded, On
      <4>2. i \notin StartedWith(id)
        BY <1>5 DEF StartedWith
      <4>3. run'[i] = run[i]
        BY <1>2, <1>5, <3>1, <3>2, <4>1, <4>2, ConnectionUpAt, Kinds
      <4>4. QED
        BY <1>5, <4>3
    <3>3. CASE On(id) /\ id \in Apps
      <4>1. run' = StartedAlone(id) /\ row[id] # None
        BY <1>1, <3>3, Kinds DEF Reloaded, On
      <4>2. run'[i] = run[i]
        BY <1>2, <1>5, <3>1, <3>3, <4>1, StartedAt, Kinds
      <4>3. QED
        BY <1>5, <4>2
    <3>4. CASE On(id) /\ id \in Groups
      <4>1. run' = [run EXCEPT ![id] = GroupRun(id)]
        BY <1>1, <3>4, Kinds DEF Reloaded
      <4>2. run'[i] = run[i]
        BY <1>2, <4>1
      <4>3. QED
        BY <1>5, <4>2
    <3>5. CASE ~On(id) /\ id \in Conns
      <4>1. run' = Stopped({id} \cup RunningOn(id))
        BY <1>1, <3>5, Kinds DEF Reloaded
      <4>2. i \notin RunningOn(id)
        BY <2>3 DEF RunningOn
      <4>3. run'[i] = run[i]
        BY <1>2, <1>5, <4>1, <4>2, Kinds DEF Stopped
      <4>4. QED
        BY <1>5, <4>3
    <3>6. CASE id \in Apps /\ row[id] = None
      <4>1. run' = Detached(id)
        BY <1>1, <3>6, Kinds DEF Reloaded, On
      <4>2. QED
        BY <1>5, <3>1, <3>6, <4>1, DetachedAt
    <3>7. CASE ~On(id) /\ id \notin Conns /\ ~(id \in Apps /\ row[id] = None)
      <4>1. run' = Stopped({id})
        BY <1>1, <3>7 DEF Reloaded
      <4>2. run'[i] = run[i]
        BY <1>2, <1>5, <4>1, Kinds DEF Stopped
      <4>3. QED
        BY <1>5, <4>2
    <3>8. QED
      BY <3>2, <3>3, <3>4, <3>5, <3>6, <3>7, Kinds
  <2>5. PICK c \in Conns : c = run[i].parent
    BY <2>2
  <2>6. Applies(p, c)'
    BY <2>1, <2>3, <2>5
  <2>7. run'[i].parent = c
    BY <2>4, <2>5
  <2>8. QED
    BY <1>5, <2>4, <2>6, <2>7 DEF Covered
<1>6. CASE /\ i \in Conns \cup Apps /\ row[i] # None
           /\ \E s \in Scanners : Deals(s, i)
  BY <1>2, <1>6 DEF Covered
<1>7. QED
  BY <1>3, <1>4, <1>5, <1>6 DEF Covered

(* A request that has written and moves on to its reload: what was waiting *)
(* keeps who applies it.                                                   *)
LEMMA WrittenCovers ==
    ASSUME IInv, Untroubled, ~trouble, NEW r \in Requests, req[r].pc = "save",
           NEW l \in {"apply", "done", "failed"}, Writes(r, l) \/ Go(r, l),
           UNCHANGED <<run, scan>>,
           \A i \in pending : \/ Applies(r, i)'
                              \/ /\ i \in Groups /\ row[i] = None /\ run[i] # None =>
                                      row'[i] = None
                                 /\ i \in Conns \cup Apps /\ row[i] # None =>
                                      row'[i] = row[i],
           \A i \in pending' \ pending : Covered(i)'
    PROVE  Untroubled'
<1>1. \A p \in Requests : p # r => Keeps(p)
  BY WritesAt, GoKeeps
<1>2. req'[r].pc = l
  BY WritesAt, GoAt, ReachedAt DEF Active
<1>3. \A p \in Requests : req'[p].pc \notin {"undo", "reapply"}
  BY <1>1, <1>2 DEF Untroubled, Keeps
<1>4. ASSUME NEW i \in pending' PROVE Covered(i)'
  <2>1. CASE i \in pending
    <3>1. Covered(i) /\ i \in Ids
      BY <2>1 DEF Untroubled, IInv, TypeOK, BooksType
    <3>2. QED
      BY <1>1, <2>1, <3>1, CoverKept
  <2>2. QED
    BY <1>4, <2>1
<1>5. QED
  BY <1>3, <1>4 DEF Untroubled

(* The request still knows what it is about when it comes to the reload.   *)
LEMMA GoesToApply ==
    ASSUME IInv, NEW r \in Requests, Active(r), Writes(r, "apply"),
           NEW j, j = Target(r)
    PROVE  Applies(r, j)'
<1>1. /\ req'[r].pc = "apply"
      /\ req'[r].do = req[r].do /\ req'[r].id = req[r].id
      /\ req'[r].new = req[r].new /\ req'[r].was = req[r].was
  BY WritesAt, ReachedAt
<1>2. QED
  BY <1>1 DEF Applies, Target

(* What a deletion leaves to be applied: the row it is about, and groups   *)
(* that run on the connection that is gone.                                *)
LEMMA TouchedCovers ==
    ASSUME IInv, Untroubled, ~trouble, NEW r \in Requests, req[r].pc = "save",
           Writes(r, "apply"), row' = Deleted(req[r].id), UNCHANGED <<run, scan>>,
           NEW i \in Touched(Target(r)) \ pending
    PROVE  Covered(i)'
<1> DEFINE q == req[r]
<1>1. Active(r) /\ q.id \in Ids
  BY TargetType DEF Active
<1>2. CASE i = Target(r)
  BY <1>1, <1>2, GoesToApply DEF Covered
<1>3. CASE i # Target(r)
  <2>1. i \in Groups /\ run[i] # None /\ row'[i] = None /\ row[i] # None
    BY <1>3 DEF Touched
  <2>2. q.id \notin Apps
    BY <1>1, <2>1, AppDeletedAt DEF IInv, TypeOK
  <2>3. i \in Gone(q.id)
    BY <1>1, <2>1, <2>2, DeletedAt, Kinds DEF IInv, TypeOK
  <2>4. i # q.id
    BY <1>1, <1>3, <2>1, TargetType, Kinds
  <2>5. row[i].parent = q.id
    BY <1>1, <2>1, <2>2, <2>3, <2>4, DeletedAt DEF IInv, TypeOK
  <2>6. q.id \in Conns
    BY <2>1, <2>5, ParentConn
  <2>7. run[i].parent = q.id /\ Target(r) = q.id
    BY <1>1, <2>1, <2>5, <2>6, RunsAsRow, TargetType, Kinds
  <2>8. PICK c : c = q.id
    OBVIOUS
  <2>9. Applies(r, c)'
    BY <1>1, <2>7, <2>8, GoesToApply
  <2>10. run'[i].parent = c
    BY <2>7, <2>8
  <2>11. QED
    BY <2>1, <2>9, <2>10 DEF Covered
<1>4. QED
  BY <1>2, <1>3

(* The transaction of a request.                                           *)
LEMMA SaveCovers ==
    ASSUME IInv, Untroubled, NEW r \in Requests, Save(r)
    PROVE  Untroubled'
<1> DEFINE q == req[r]
<1>1. q.pc = "save" /\ UNCHANGED <<run, disk, reg, scan, changes, restarts>>
  BY DEF Save
<1>2. Active(r)
  BY <1>1 DEF Active
<1>3. /\ q.id \in Ids
      /\ q.id \notin Tags => Target(r) = q.id
      /\ q.do # "delete" => q.new \in RowOf(q.id)
  BY <1>2, TargetType
<1>4. TablesType
  BY DEF IInv, TypeOK
<1> SUFFICES ASSUME ~trouble' PROVE Untroubled'
  BY DEF Untroubled
<1>5. CASE Go(r, "failed") /\ UNCHANGED <<row, pending, trouble>>
  BY <1>1, <1>5, WrittenCovers
<1>6. CASE /\ q.do = "create" /\ q.id \notin Tags /\ row[q.id] = None
           /\ row' = Inserted(q.id, q.new)
           /\ Writes(r, IF q.new.on THEN "apply" ELSE "done")
           /\ pending' = IF q.new.on THEN pending \cup {q.id} ELSE pending
           /\ trouble' = (trouble \/ (~q.new.on /\ run[q.id] # None))
  <2>1. /\ ~trouble /\ (~q.new.on => run[q.id] = None)
        /\ \A i \in Ids : i # q.id => row'[i] = row[i]
    BY <1>3, <1>4, <1>6, InsertedAt
  <2>2. CASE q.new.on
    <3>1. \A j : j = q.id => Applies(r, j)'
      BY <1>2, <1>3, <1>6, <2>2, GoesToApply
    <3>2. \A i \in pending' \ pending : Covered(i)'
      BY <1>6, <2>2, <3>1 DEF Covered
    <3>3. QED
      BY <1>1, <1>6, <2>1, <2>2, <3>1, <3>2, WrittenCovers DEF IInv,
         TypeOK, BooksType
  <2>3. CASE ~q.new.on
    <3>1. pending \subseteq Ids
      BY DEF IInv, TypeOK, BooksType
    <3>2. pending' = pending /\ Writes(r, "done")
      BY <1>6, <2>3
    <3>3. ASSUME NEW i \in pending
          PROVE  /\ i \in Groups /\ row[i] = None /\ run[i] # None =>
                      row'[i] = None
                 /\ i \in Conns \cup Apps /\ row[i] # None => row'[i] = row[i]
      BY <1>6, <2>1, <2>3, <3>1
    <3>4. \A i \in pending' \ pending : Covered(i)'
      BY <3>2
    <3>5. UNCHANGED <<run, scan>> /\ req[r].pc = "save" /\ ~trouble
      BY <1>1, <2>1
    <3>6. \A i \in pending :
             \/ Applies(r, i)'
             \/ /\ i \in Groups /\ row[i] = None /\ run[i] # None => row'[i] = None
                /\ i \in Conns \cup Apps /\ row[i] # None => row'[i] = row[i]
      BY <3>3
    <3>7. QED
      BY <3>2, <3>4, <3>5, <3>6, WrittenCovers
  <2>4. QED
    BY <2>2, <2>3
<1>7. CASE /\ q.do = "update" \/ (q.do = "create" /\ q.id \in Tags)
           /\ row' = Upsert(q.id, q.new)
           /\ Writes(r, "apply")
           /\ pending' = pending \cup {Target(r)} \cup Elsewhere(r)
           /\ trouble' = (trouble \/ Elsewhere(r) # {})
  <2>1. /\ ~trouble /\ pending' = pending \cup {Target(r)}
        /\ \A i \in Ids : i # q.id => row'[i] = row[i]
    <3>1. q.new \in RowOf(q.id) /\ row' = Upsert(q.id, q.new)
      BY <1>3, <1>7
    <3>2. \A i \in Ids : i # q.id => Upsert(q.id, q.new)[i] = row[i]
      BY <1>3, <1>4, <3>1, UpsertAt
    <3>3. QED
      BY <1>7, <3>1, <3>2
  <2>2. \A j : j = Target(r) => Applies(r, j)'
    BY <1>2, <1>7, GoesToApply
  <2>3. \A i \in pending' \ pending : Covered(i)'
    BY <2>1, <2>2 DEF Covered
  <2>4. \A i \in pending : \/ Applies(r, i)'
                            \/ row'[i] = row[i]
    BY <1>3, <2>1, <2>2, Kinds DEF IInv, TypeOK, BooksType
  <2>5. QED
    BY <1>1, <1>7, <2>1, <2>3, <2>4, WrittenCovers
<1>8. CASE /\ q.do = "delete"
           /\ row' = Deleted(q.id)
           /\ Writes(r, "apply")
           /\ pending' = pending \cup Touched(Target(r)) \cup Elsewhere(r)
           /\ trouble' = (trouble \/ Elsewhere(r) # {})
  <2>1. ~trouble /\ pending' = pending \cup Touched(Target(r))
    BY <1>8
  <2>2. \A j : j = Target(r) => Applies(r, j)'
    BY <1>2, <1>8, GoesToApply
  <2>3. \A i \in pending' \ pending : Covered(i)'
    BY <1>1, <1>8, <2>1, TouchedCovers
  <2>4. ASSUME NEW i \in Ids \ Tags
        PROVE  \/ Applies(r, i)'
               \/ /\ i \in Groups /\ row[i] = None => row'[i] = None
                  /\ i \in Conns \cup Apps => row'[i] = row[i]
    <3>1. CASE i = q.id
      BY <1>3, <2>2, <2>4, <3>1
    <3>2. CASE i # q.id /\ q.id \in Apps
      BY <1>4, <1>8, <2>4, <3>2, AppDeletedAt, Kinds
    <3>3. CASE i # q.id /\ q.id \notin Apps
      BY <1>3, <1>4, <1>8, <2>4, <3>3, DeletedAt
    <3>4. QED
      BY <3>1, <3>2, <3>3
  <2>5. pending \subseteq Ids \ Tags
    BY DEF IInv, TypeOK, BooksType
  <2>6. QED
    BY <1>1, <1>8, <2>1, <2>3, <2>4, <2>5, WrittenCovers
<1>9. QED
  BY <1>5, <1>6, <1>7, <1>8 DEF Save

(* A rollback is no step of a state in which nothing has failed.           *)
LEMMA UndoCovers ==
    ASSUME IInv, Untroubled, NEW r \in Requests, Undo(r) \/ Reapply(r)
    PROVE  Untroubled'
<1> SUFFICES ASSUME ~trouble' PROVE FALSE
  BY DEF Untroubled
<1>1. req[r].pc \in {"undo", "reapply"}
  BY DEF Undo, Reapply
<1>2. ~trouble
  BY DEF Undo, Reapply, ReloadSucceeds, ReloadFails
<1>3. QED
  BY <1>1, <1>2 DEF Untroubled

(* A request that reloads id, and then is done with it.                    *)
LEMMA RequestReloadCovers ==
    ASSUME IInv, Untroubled, NEW r \in Requests, NEW id \in Ids \ Tags,
           ReloadSucceeds(id), Go(r, "done"), UNCHANGED <<row, scan>>,
           req[r].pc = "apply" => Target(r) = id
    PROVE  Untroubled'
<1> SUFFICES ASSUME ~trouble' PROVE Untroubled'
  BY DEF Untroubled
<1>1. ~trouble
  BY DEF ReloadSucceeds
<1>2. \A p \in Requests : p # r => req'[p] = req[p]
  BY GoAt
<1>3. req'[r] = [pc |-> "done"]
  BY GoAt DEF Reached
<1>4. \A p \in Requests : req'[p].pc \notin {"undo", "reapply"}
  BY <1>1, <1>2, <1>3 DEF Untroubled
<1>5. \A j : \A p \in Requests : j # id /\ Applies(p, j) => Applies(p, j)'
  BY <1>2 DEF Applies, Target
<1>6. \A j : \A s \in Scanners : j # id /\ Deals(s, j) => Deals(s, j)'
  BY DEF Deals, WillList, On
<1>7. \A i \in pending' : Covered(i)'
  BY <1>5, <1>6, ReloadCovers
<1>8. QED
  BY <1>4, <1>7 DEF Untroubled

(* The reload of a request.                                                *)
LEMMA ApplyCovers ==
    ASSUME IInv, Untroubled, NEW r \in Requests, Apply(r)
    PROVE  Untroubled'
<1>1. CASE ReloadFails(Target(r))
  BY <1>1 DEF ReloadFails, Untroubled
<1>2. CASE ReloadSucceeds(Target(r)) /\ Go(r, "done")
  <2>1. Active(r) /\ UNCHANGED <<row, scan>>
    BY DEF Apply, Active
  <2>2. Target(r) \in Ids \ Tags
    BY <2>1, TargetType
  <2>3. QED
    BY <1>2, <2>1, <2>2, RequestReloadCovers
<1>3. QED
  BY <1>1, <1>2 DEF Apply

(* A reload on demand.                                                     *)
LEMMA ReloadAgainCovers ==
    ASSUME IInv, Untroubled, NEW r \in Requests, ReloadAgain(r)
    PROVE  Untroubled'
<1>1. PICK id \in Groups \cup Apps : \/ ReloadSucceeds(id) /\ Go(r, "done")
                                     \/ ReloadFails(id) /\ Go(r, "failed")
  BY DEF ReloadAgain
<1>2. req[r].pc # "apply" /\ UNCHANGED <<row, scan>>
  BY DEF ReloadAgain, Idle
<1>3. CASE ReloadFails(id)
  BY <1>3 DEF ReloadFails, Untroubled
<1>4. CASE ReloadSucceeds(id) /\ Go(r, "done")
  BY <1>2, <1>4, RequestReloadCovers, Kinds
<1>5. QED
  BY <1>1, <1>3, <1>4

(* A handler has read and checked.                                         *)
LEMMA BeginCovers ==
    ASSUME IInv, Untroubled, NEW r \in Requests, NEW do, NEW id, NEW v,
           Begin(r, do, id, v)
    PROVE  Untroubled'
<1> SUFFICES ASSUME ~trouble' PROVE Untroubled'
  BY DEF Untroubled
<1>1. /\ ~trouble /\ UNCHANGED <<row, run, scan, pending>>
      /\ req[r].pc = "new"
  BY DEF Begin, Idle
<1>2. /\ req'[r].pc = "save"
      /\ \A p \in Requests : p # r => req'[p] = req[p]
  BY DEF Begin, IInv, TypeOK, RequestsType
<1>3. \A p \in Requests : p # r => Keeps(p)
  BY <1>2, ActiveOpen DEF Keeps, IInv, TypeOK, RequestsType
<1>4. \A i \in pending' : Covered(i)'
  <2>1. \A i \in pending : Covered(i) /\ i \in Ids
    BY <1>1 DEF Untroubled, IInv, TypeOK, BooksType
  <2>2. QED
    BY <1>1, <1>3, <2>1, CoverKept
<1>5. QED
  BY <1>1, <1>2, <1>4 DEF Untroubled

(* A step that moves nothing but the reconciliations.                      *)
LEMMA ScanCovers ==
    ASSUME IInv, Untroubled, UNCHANGED <<row, run, req, trouble>>,
           \A i \in pending' \ pending : Covered(i)',
           \A s \in Scanners, i \in Conns \cup Apps : Deals(s, i) => Deals(s, i)'
    PROVE  Untroubled'
<1> SUFFICES ASSUME ~trouble' PROVE Untroubled'
  BY DEF Untroubled
<1>1. \A j : \A p \in Requests : Applies(p, j) => Applies(p, j)'
  BY DEF Applies, Target
<1>2. ASSUME NEW i \in pending, Covered(i) PROVE Covered(i)'
  <2>1. CASE \E p \in Requests : Applies(p, i)
    BY <1>1, <2>1 DEF Covered
  <2>2. CASE /\ i \in Groups /\ row[i] = None /\ run[i] # None
             /\ \E p \in Requests : Applies(p, run[i].parent)
    <3>1. PICK c : c = run[i].parent
      OBVIOUS
    <3>2. \E p \in Requests : Applies(p, c)'
      BY <1>1, <2>2, <3>1
    <3>3. QED
      BY <2>2, <3>1, <3>2 DEF Covered
  <2>3. CASE /\ i \in Conns \cup Apps /\ row[i] # None
             /\ \E s \in Scanners : Deals(s, i)
    BY <2>3 DEF Covered
  <2>4. QED
    BY <1>2, <2>1, <2>2, <2>3 DEF Covered
<1>3. QED
  BY <1>2 DEF Untroubled

(* What a scan makes pending, it will list.                                *)
LEMMA ScanStepCovers ==
    ASSUME IInv, Untroubled, NEW s \in Scanners, Scan(s)
    PROVE  Untroubled'
<1> DEFINE diff == DiffPlugins
           x == [phase |-> "connections", listed |-> FALSE, types |-> diff,
                 removed |-> {p \in diff : disk[p] = 0}, todo |-> {}]
<1>1. /\ UNCHANGED <<row, run, req, trouble>>
      /\ scan[s].phase = "idle"
      /\ scan' = [scan EXCEPT ![s] = x]
      /\ pending' = pending
           \cup {id \in Conns \cup Apps : On(id) /\ row[id].type \in diff}
  BY DEF Scan
<1>2. scan'[s] = x /\ \A z \in Scanners : z # s => scan'[z] = scan[z]
  <2> HIDE DEF x
  <2>1. QED
    BY <1>1 DEF IInv, TypeOK, ScansType
<1>3. scan[s] = Resting
  BY <1>1 DEF IInv, ScansOK
<1>4. \A z \in Scanners, i \in Conns \cup Apps : Deals(z, i) => Deals(z, i)'
  <2>1. \A i : ~Deals(s, i)
    BY <1>3 DEF Deals, WillList, Resting
  <2>2. QED
    BY <1>1, <1>2, <2>1 DEF Deals, WillList, On
<1>5. ASSUME NEW i \in pending' \ pending PROVE Covered(i)'
  <2>1. i \in Conns \cup Apps /\ On(i) /\ row[i].type \in diff
    BY <1>1, <1>5
  <2>2. /\ scan'[s].phase = "connections" /\ ~scan'[s].listed
        /\ scan'[s].types = diff
    BY <1>2
  <2>3. WillList(s, i)'
    <3> HIDE DEF diff
    <3>1. QED
      BY <1>1, <2>1, <2>2 DEF WillList, On
  <2>4. QED
    BY <1>1, <2>1, <2>3 DEF Covered, Deals, On
<1>6. QED
  BY <1>1, <1>4, <1>5, ScanCovers

(* What was to be listed is on the list.                                   *)
LEMMA ListCovers ==
    ASSUME IInv, Untroubled, NEW s \in Scanners, List(s)
    PROVE  Untroubled'
<1>1. UNCHANGED <<row, run, req, pending, trouble>> /\ ~scan[s].listed
  BY DEF List
<1>2. PICK ids \in {Conns, Apps} :
        /\ Lists(s, ids)
        /\ \/ scan[s].phase = "connections" /\ ids = Conns
           \/ scan[s].phase = "applications" /\ ids = Apps
  BY DEF List
<1> DEFINE todo == {<<i, row[i].type>> : i \in
                     {j \in ids : On(j) /\ row[j].type \in scan[s].types}}
<1>3. /\ scan'[s].phase = scan[s].phase /\ scan'[s].types = scan[s].types
      /\ scan'[s].todo = todo
      /\ \A z \in Scanners : z # s => scan'[z] = scan[z]
  <2>1. scan' = [scan EXCEPT ![s].listed = TRUE, ![s].todo = todo]
    BY <1>2 DEF Lists
  <2> HIDE DEF todo
  <2>2. scan[s] \in ScanRecord /\ scan = [z \in Scanners |-> scan[z]]
    BY ScanAt DEF IInv, TypeOK, ScansType
  <2>3. scan' = [scan EXCEPT ![s] = [scan[s] EXCEPT !.listed = TRUE, !.todo = todo]]
    BY <2>1
  <2>4. QED
    BY <2>2, <2>3 DEF ScanRecord
<1>4. scan[s].todo = {}
  BY <1>1 DEF IInv, ScansOK
<1>5. ASSUME NEW i \in Conns \cup Apps, Deals(s, i) PROVE Deals(s, i)'
  <2>1. WillList(s, i)
    BY <1>4, <1>5 DEF Deals
  <2>2. On(i) /\ row[i].type \in scan[s].types
    BY <2>1 DEF WillList
  <2>3. CASE i \in ids
    <3>1. PICK e \in todo : e = <<i, row[i].type>>
      BY <2>2, <2>3
    <3>2. e \in scan'[s].todo /\ e[1] = i
      <4> HIDE DEF todo
      <4>1. QED
        BY <1>3, <3>1
    <3>3. QED
      BY <3>2 DEF Deals
  <2>4. CASE i \notin ids
    BY <1>1, <1>2, <1>3, <2>1, <2>4 DEF Deals, WillList, On
  <2>5. QED
    BY <2>3, <2>4
<1>6. \A z \in Scanners, i \in Conns \cup Apps : Deals(z, i) => Deals(z, i)'
  BY <1>1, <1>3, <1>5 DEF Deals, WillList, On
<1>7. QED
  BY <1>1, <1>6, ScanCovers

(* What is not on the list of connections comes with the applications.     *)
LEMMA ListDoneCovers ==
    ASSUME IInv, Untroubled, NEW s \in Scanners, ListDone(s)
    PROVE  Untroubled'
<1> DEFINE x == IF scan[s].phase = "connections"
                THEN [scan[s] EXCEPT !.phase = "applications", !.listed = FALSE]
                ELSE Resting
<1>1. /\ UNCHANGED <<row, run, req, pending, trouble>>
      /\ scan[s].listed /\ scan[s].todo = {}
      /\ scan' = [scan EXCEPT ![s] = x]
  BY DEF ListDone
<1>2. scan'[s] = x /\ \A z \in Scanners : z # s => scan'[z] = scan[z]
  <2> HIDE DEF x
  <2>1. QED
    BY <1>1 DEF IInv, TypeOK, ScansType
<1>3. ASSUME NEW i \in Conns \cup Apps, Deals(s, i) PROVE Deals(s, i)'
  <2>1. WillList(s, i) /\ scan[s].phase = "connections" /\ i \in Apps
    BY <1>1, <1>3, Kinds DEF Deals, WillList
  <2>2. /\ scan'[s].phase = "applications" /\ ~scan'[s].listed
        /\ scan'[s].types = scan[s].types
    BY <1>2, <2>1, ScanAt DEF ScanRecord
  <2>3. QED
    BY <1>1, <2>1, <2>2 DEF Deals, WillList, On
<1>4. \A z \in Scanners, i \in Conns \cup Apps : Deals(z, i) => Deals(z, i)'
  BY <1>1, <1>2, <1>3 DEF Deals, WillList, On
<1>5. QED
  BY <1>1, <1>4, ScanCovers

(* What is dealt with is off the list, and nothing else.                   *)
LEMMA DealtAt ==
    ASSUME IInv, NEW s \in Scanners, NEW e, Dealt(s, e), UNCHANGED row
    PROVE  \A i : \A z \in Scanners : i # e[1] /\ Deals(z, i) => Deals(z, i)'
<1>1. /\ scan'[s].phase = scan[s].phase /\ scan'[s].types = scan[s].types
      /\ scan'[s].listed = scan[s].listed /\ scan'[s].todo = scan[s].todo \ {e}
      /\ \A z \in Scanners : z # s => scan'[z] = scan[z]
  <2>1. scan[s] \in ScanRecord /\ scan = [z \in Scanners |-> scan[z]]
    BY ScanAt DEF IInv, TypeOK, ScansType
  <2>2. scan' = [scan EXCEPT ![s] = [scan[s] EXCEPT !.todo = scan[s].todo \ {e}]]
    BY DEF Dealt
  <2>3. QED
    BY <2>1, <2>2 DEF ScanRecord
<1>2. QED
  BY <1>1 DEF Deals, WillList, On

(* An entry of the list is reloaded.                                       *)
LEMMA ReconcileReloadsCovers ==
    ASSUME IInv, Untroubled, NEW s \in Scanners, ReconcileReloads(s)
    PROVE  Untroubled'
<1> SUFFICES ASSUME ~trouble' PROVE Untroubled'
  BY DEF Untroubled
<1>1. UNCHANGED <<row, req>>
  BY DEF ReconcileReloads
<1>2. PICK e \in scan[s].todo : ReloadSucceeds(e[1]) /\ Dealt(s, e)
  BY DEF ReconcileReloads
<1>3. e[1] \in Ids \ Tags /\ ~trouble
  BY <1>2, EntryType DEF ReloadSucceeds
<1>4. \A j : \A p \in Requests : Applies(p, j) => Applies(p, j)'
  BY <1>1 DEF Applies, Target
<1>5. PICK id : id = e[1]
  OBVIOUS
<1>6. \A j : \A z \in Scanners : j # id /\ Deals(z, j) => Deals(z, j)'
  BY <1>1, <1>2, <1>5, DealtAt
<1>7. \A i \in pending' : Covered(i)'
  BY <1>1, <1>2, <1>3, <1>4, <1>5, <1>6, ReloadCovers
<1>8. QED
  BY <1>1, <1>3, <1>7 DEF Untroubled

(* An entry of the list is stopped.                                        *)
LEMMA ReconcileStopsCovers ==
    ASSUME IInv, Untroubled, NEW s \in Scanners, ReconcileStops(s)
    PROVE  Untroubled'
<1> SUFFICES ASSUME ~trouble' PROVE Untroubled'
  BY DEF Untroubled
<1>1. UNCHANGED <<row, req>>
  BY DEF ReconcileStops
<1>2. PICK e \in scan[s].todo :
        LET id == e[1] IN
        /\ run' = Stopped({id} \cup RunningOn(id))
        /\ pending' =
             (IF row[id] = None THEN pending
              ELSE IF Wanted(id) THEN pending \cup {id} \cup Astray(id)
              ELSE (pending \ {id}) \cup Astray(id)) \ StoppedWith(id)
        /\ trouble' = (trouble \/ Wanted(id) \/ Astray(id) # {})
        /\ Dealt(s, e)
  BY DEF ReconcileStops
<1>3. PICK id : id = e[1]
  OBVIOUS
<1>4. id \in Conns \cup Apps
  BY <1>3, EntryType
<1>5. /\ ~trouble
      /\ run' = Stopped({id} \cup RunningOn(id))
      /\ pending' = (IF row[id] = None THEN pending ELSE pending \ {id})
                     \ StoppedWith(id)
  BY <1>2, <1>3
<1>6. \A j : \A p \in Requests : Applies(p, j) => Applies(p, j)'
  BY <1>1 DEF Applies, Target
<1>7. \A j : \A z \in Scanners : j # id /\ Deals(z, j) => Deals(z, j)'
  BY <1>1, <1>2, <1>3, DealtAt
<1>8. ASSUME NEW i \in pending' PROVE Covered(i)'
  <2>1. i \in pending /\ i \notin StoppedWith(id) /\ i \in Ids
    BY <1>5, <1>8 DEF IInv, TypeOK, BooksType
  <2>2. Covered(i)
    BY <1>5, <2>1 DEF Untroubled
  <2>3. CASE \E p \in Requests : Applies(p, i)
    BY <1>6, <2>3 DEF Covered
  <2>4. CASE /\ i \in Groups /\ row[i] = None /\ run[i] # None
             /\ \E p \in Requests : Applies(p, run[i].parent)
    <3>1. i \notin RunningOn(id) /\ i # id
      BY <1>4, <2>1, <2>4, Kinds DEF StoppedWith
    <3>2. run'[i] = run[i]
      BY <1>5, <2>1, <3>1 DEF Stopped
    <3>3. PICK c : c = run[i].parent
      OBVIOUS
    <3>4. \E p \in Requests : Applies(p, c)'
      BY <1>6, <2>4, <3>3
    <3>5. QED
      BY <1>1, <2>4, <3>2, <3>3, <3>4 DEF Covered
  <2>5. CASE /\ i \in Conns \cup Apps /\ row[i] # None
             /\ \E z \in Scanners : Deals(z, i)
    <3>1. i # id
      BY <1>5, <1>8, <2>5
    <3>2. QED
      BY <1>1, <1>7, <2>5, <3>1 DEF Covered
  <2>6. QED
    BY <2>2, <2>3, <2>4, <2>5 DEF Covered
<1>9. QED
  BY <1>1, <1>5, <1>8 DEF Untroubled

(* What waits to be applied is on the way, and nothing is rolled back, as  *)
(* long as nothing has failed.                                             *)
LEMMA UntroubledStep ==
    ASSUME IInv, Untroubled, [Next]_vars
    PROVE  Untroubled'
<1>1. ASSUME NEW r \in Requests, Request(r) PROVE Untroubled'
  BY <1>1, BeginCovers, SaveCovers, ApplyCovers, UndoCovers, ReloadAgainCovers
  DEF Request
<1>2. ASSUME NEW s \in Scanners, Reconcile(s) PROVE Untroubled'
  <2>1. CASE Abandon(s)
    BY <2>1 DEF Abandon, ReloadFails, Untroubled
  <2>2. QED
    BY <1>2, <2>1, ScanStepCovers, ListCovers, ListDoneCovers,
       ReconcileStopsCovers, ReconcileReloadsCovers DEF Reconcile
<1>3. ASSUME NEW p \in Plugins, NEW v \in 0..MaxVersion, Installs(p, v)
      PROVE  Untroubled'
  <2>1. UNCHANGED <<row, run, req, scan, pending, trouble>>
    BY <1>3 DEF Installs
  <2>2. QED
    BY <2>1, ScanCovers DEF Deals, WillList, On
<1>4. CASE Restart
  BY <1>4 DEF Restart, Untroubled, Idle
<1>5. CASE UNCHANGED vars
  <2>1. UNCHANGED <<row, run, req, scan, pending, trouble>>
    BY <1>5 DEF vars
  <2>2. QED
    BY <2>1, ScanCovers DEF Deals, WillList, On
<1>6. QED
  BY <1>1, <1>2, <1>3, <1>4, <1>5 DEF Next

(* When nothing is under way and nothing has failed, everything that was   *)
(* written has been applied.                                               *)
THEOREM Forgotten == Spec => []NothingForgotten
<1>1. Init => Untroubled
  BY DEF Init, Untroubled, Idle
<1>2. IInv /\ Untroubled /\ [Next]_vars => Untroubled'
  BY UntroubledStep
<1>3. Untroubled => NothingForgotten
  <2> SUFFICES ASSUME Untroubled, AtRest, ~trouble, NEW id \in pending PROVE FALSE
    BY DEF NothingForgotten
  <2>1. Covered(id)
    BY DEF Untroubled
  <2>2. \A j : \A r \in Requests : ~Applies(r, j)
    BY DEF AtRest, Active, Applies
  <2>3. \A j : \A s \in Scanners : ~Deals(s, j)
    BY DEF AtRest, Deals, WillList, Resting
  <2>4. QED
    BY <2>1, <2>2, <2>3 DEF Covered
<1>4. QED
  BY Inductive, <1>1, <1>2, <1>3, PTL DEF Spec

(* A step that writes nothing leaves the others as alone as they are.      *)
LEMMA AloneKept ==
    ASSUME IInv, AloneInv, UNCHANGED row, NEW r \in Requests,
           \A p \in Requests : p # r => req'[p] = req[p],
           Active(r)' /\ req'[r].alone => AloneFinds(req[r])'
    PROVE  AloneInv'
BY DEF AloneInv, AloneFinds, Active

(* A step that writes leaves nobody else alone.                            *)
LEMMA AloneWrites ==
    ASSUME IInv, AloneInv, NEW r \in Requests, NEW l, Writes(r, l),
           Active(r)' /\ req'[r].alone => AloneFinds(req[r])'
    PROVE  AloneInv'
<1>1. \A p \in Requests : p # r => Keeps(p) /\ (Active(p) => ~req'[p].alone)
  BY WritesAt
<1>2. \A p \in Requests : p # r /\ Active(p)' => Active(p)
  BY <1>1 DEF Keeps, Active
<1>3. QED
  BY <1>1, <1>2 DEF AloneInv

(* The transaction of a request: an update leaves a row with its old       *)
(* column.                                                                 *)
LEMMA SaveAlone ==
    ASSUME IInv, AloneInv, NEW r \in Requests, Save(r)
    PROVE  AloneInv'
<1> DEFINE q == req[r]
<1>1. q.pc = "save" /\ Active(r)
  BY DEF Save, Active
<1>2. TablesType /\ q.id \in Ids /\ RequestOK(q)
      /\ (q.do # "delete" => q.new \in RowOf(q.id))
  BY <1>1, TargetType, ActiveOpen DEF IInv, TypeOK
<1>3. CASE Go(r, "failed") /\ UNCHANGED row
  <2>1. req'[r].pc = "failed" /\ \A p \in Requests : p # r => req'[p] = req[p]
    BY <1>1, <1>3, GoAt, ReachedAt
  <2>2. QED
    BY <1>3, <2>1, AloneKept DEF Active
<1>4. CASE \E l \in {"apply", "done"} : Writes(r, l) /\ q.do # "update"
  <2>1. PICK l \in {"apply", "done"} : Writes(r, l)
    BY <1>4
  <2>2. /\ req'[r].pc = l
        /\ l = "apply" => req'[r].do = q.do
    BY <1>1, <2>1, WritesAt, ReachedAt
  <2>3. Active(r)' /\ req'[r].alone => AloneFinds(req[r])'
    BY <1>4, <2>2 DEF Active, AloneFinds
  <2>4. QED
    BY <2>1, <2>3, AloneWrites
<1>5. CASE q.do = "update" /\ row' = Upsert(q.id, q.new) /\ Writes(r, "apply")
  <2>1. /\ req'[r].pc = "apply" /\ req'[r].do = q.do /\ req'[r].id = q.id
        /\ req'[r].was = q.was /\ req'[r].alone = q.alone
    BY <1>1, <1>5, WritesAt, ReachedAt
  <2>2. q.alone => row[q.id] = q.was /\ q.was # None
    BY <1>1, <1>2, <1>5 DEF AloneInv, AloneFinds, RequestOK
  <2>3. q.alone => /\ row'[q.id] # None
                   /\ q.id \in Groups => row'[q.id].legacy = q.was.legacy
    <3>1. q.new \in RowOf(q.id)
      BY <1>2, <1>5
    <3>2. row[q.id] # None => Upsert(q.id, q.new)[q.id] # None
      BY <1>2, <3>1, UpsertAt
    <3>3. row[q.id] # None /\ q.id \in Groups =>
            Upsert(q.id, q.new)[q.id].legacy = row[q.id].legacy
      BY <1>2, <3>1, UpsertAt
    <3>4. QED
      BY <1>5, <2>2, <3>2, <3>3
  <2>4. Active(r)' /\ req'[r].alone => AloneFinds(req[r])'
    BY <2>1, <2>3 DEF AloneFinds
  <2>5. QED
    BY <1>5, <2>4, AloneWrites
<1>6. QED
  BY <1>1, <1>3, <1>4, <1>5, Zenon DEF Save

(* A transaction that fails has changed nothing.                           *)
LEMMA SaveLeaves ==
    ASSUME IInv, AloneInv, NEW r \in Requests, Save(r), req[r].alone,
           req'[r].pc = "failed"
    PROVE  row'[req[r].id] = req[r].was
<1>1. req[r].pc = "save" /\ Active(r)
  BY DEF Save, Active
<1>2. ~(\E l \in {"apply", "done"} : Writes(r, l))
  BY <1>1, WritesAt, ReachedAt
<1>3. UNCHANGED row
  BY <1>2 DEF Save
<1>4. QED
  BY <1>1, <1>3 DEF AloneInv, AloneFinds

(* The rollback brings back the row that was read.                         *)
LEMMA UndoAlone ==
    ASSUME IInv, AloneInv, NEW r \in Requests, Undo(r)
    PROVE  /\ AloneInv'
           /\ req[r].alone /\ req'[r].pc = "failed" =>
                row'[req[r].id] = req[r].was
<1> DEFINE q == req[r]
           gone == q.do = "create" /\ q.id \notin Tags
<1>1. q.pc = "undo" /\ Active(r)
  BY DEF Undo, Active
<1>2. /\ TablesType /\ q.id \in Ids /\ RequestOK(q)
      /\ q.do \in {"create", "update", "delete"}
      /\ q.was # None => q.was \in RowOf(q.id)
  BY <1>1, TargetType, ActiveOpen DEF IInv, TypeOK, OpenRequest
<1>3. CASE Go(r, "broken") /\ UNCHANGED row
  <2>1. req'[r].pc = "broken" /\ \A p \in Requests : p # r => req'[p] = req[p]
    BY <1>1, <1>3, GoAt, ReachedAt
  <2>2. QED
    BY <1>3, <2>1, AloneKept DEF Active
<1>4. CASE /\ row' = IF q.do = "create" THEN Deleted(q.id) ELSE Upsert(q.id, q.was)
           /\ Writes(r, IF gone THEN "failed" ELSE "reapply")
  <2>1. CASE gone
    <3>1. req'[r].pc = "failed"
      BY <1>1, <1>4, <2>1, WritesAt, ReachedAt
    <3>2. AloneInv'
      BY <1>4, <2>1, <3>1, AloneWrites DEF Active
    <3>3. row'[q.id] = None /\ q.was = None
      BY <1>2, <1>4, <2>1, AppDeletedAt, DeletedAt DEF Gone, RequestOK
    <3>4. QED
      BY <3>2, <3>3
  <2>2. CASE ~gone
    <3>1. /\ req'[r].pc = "reapply" /\ req'[r].do = q.do /\ req'[r].id = q.id
          /\ req'[r].was = q.was /\ req'[r].alone = q.alone
      BY <1>1, <1>4, <2>2, WritesAt, ReachedAt
    <3>2. ASSUME q.alone, ~(q.do = "create" /\ q.was # None)
          PROVE  row'[q.id] = q.was
      <4>1. CASE q.do = "create"
        <5>1. q.id \in Tags /\ q.was = None
          BY <2>2, <3>2, <4>1
        <5>2. row'[q.id] = None
          BY <1>2, <1>4, <4>1, <5>1, DeletedAt, Kinds DEF Gone
        <5>3. QED
          BY <5>1, <5>2
      <4>2. CASE q.do = "delete"
        <5>1. q.id \in Tags /\ q.was # None
          BY <1>1, <1>2, <4>2 DEF RequestOK
        <5>2. QED
          BY <1>2, <1>4, <4>2, <5>1, UpsertAt
      <4>3. CASE q.do = "update"
        <5>1. /\ row[q.id] # None /\ q.was # None
              /\ q.id \in Groups => row[q.id].legacy = q.was.legacy
          BY <1>1, <1>2, <3>2, <4>3 DEF AloneInv, AloneFinds, RequestOK
        <5>2. row' = Upsert(q.id, q.was)
          BY <1>4, <4>3
        <5>3. CASE q.id \notin Groups
          BY <1>2, <5>1, <5>2, <5>3, UpsertAt
        <5>4. CASE q.id \in Groups
          <6>1. row'[q.id] = [q.was EXCEPT !.legacy = q.was.legacy]
            BY <1>2, <5>1, <5>2, <5>4, UpsertAt
          <6>2. q.was \in GroupRow
            BY <1>2, <5>1, <5>4, Kinds
          <6>3. QED
            BY <6>1, <6>2 DEF GroupRow
        <5>5. QED
          BY <5>3, <5>4
      <4>4. QED
        BY <1>2, <4>1, <4>2, <4>3
    <3>3. Active(r)' /\ req'[r].alone => AloneFinds(req[r])'
      BY <3>1, <3>2 DEF AloneFinds
    <3>4. QED
      BY <1>4, <2>2, <3>1, <3>3, AloneWrites
  <2>3. QED
    BY <2>1, <2>2
<1>5. QED
  BY <1>3, <1>4 DEF Undo

(* A reload leaves the rows as they are.                                   *)
LEMMA ApplyAlone ==
    ASSUME IInv, AloneInv, NEW r \in Requests,
           Apply(r) \/ Reapply(r) \/ ReloadAgain(r)
    PROVE  /\ AloneInv'
           /\ Active(r) /\ req'[r].pc = "failed" => req[r].pc = "reapply"
<1>1. UNCHANGED row
  BY DEF Apply, Reapply, ReloadAgain
<1>2. PICK l \in {"done", "failed", "broken", "undo"} :
        /\ Go(r, l)
        /\ l = "undo" => req[r].pc = "apply"
        /\ l = "failed" => req[r].pc = "reapply" \/ ~Active(r)
  BY DEF Apply, Reapply, ReloadAgain, Active, Idle
<1>3. \A p \in Requests : p # r => req'[p] = req[p]
  BY <1>2, GoAt
<1>4. CASE l # "undo"
  <2>1. req'[r] = [pc |-> l]
    BY <1>2, <1>4, GoAt DEF Reached
  <2>2. QED
    BY <1>1, <1>2, <1>3, <1>4, <2>1, AloneKept DEF Active
<1>5. CASE l = "undo"
  <2>1. Active(r)
    BY <1>2, <1>5 DEF Active
  <2>2. /\ req'[r].pc = "undo" /\ req'[r].do = req[r].do /\ req'[r].id = req[r].id
        /\ req'[r].was = req[r].was /\ req'[r].alone = req[r].alone
    BY <1>2, <1>5, <2>1, GoAt, ReachedAt
  <2>3. Active(r)' /\ req'[r].alone => AloneFinds(req[r])'
    BY <1>1, <1>2, <1>5, <2>1, <2>2 DEF AloneInv, AloneFinds
  <2>4. QED
    BY <1>1, <1>3, <2>2, <2>3, AloneKept
<1>6. QED
  BY <1>4, <1>5

(* A request that begins has just read its row.                            *)
LEMMA BeginAlone ==
    ASSUME IInv, AloneInv, NEW r \in Requests, NEW do, NEW id, NEW v,
           Begin(r, do, id, v)
    PROVE  AloneInv' /\ req'[r].pc # "failed"
<1>1. /\ UNCHANGED row
      /\ req'[r] = [pc |-> "save", do |-> do, id |-> id, new |-> v,
                    was |-> row[id], alone |-> TRUE]
      /\ \A p \in Requests : p # r => req'[p] = req[p]
  BY DEF Begin, IInv, TypeOK, RequestsType
<1>2. AloneFinds(req[r])'
  BY <1>1 DEF AloneFinds
<1>3. QED
  BY <1>1, <1>2, AloneKept

(* A request that fails, and whose rollback does not, and that has been    *)
(* alone with the store, leaves the row it is about as it has found it.    *)
THEOREM RowLeft == Spec => FailedLeavesRow
<1> DEFINE Leaves ==
      \A r \in Requests :
         LET q == req[r] IN
         /\ Active(r) /\ q.alone /\ req'[r].pc = "failed"
         /\ ~(q.do = "create" /\ q.was # None)
         => row'[q.id] = q.was
<1>1. Init => AloneInv
  BY DEF Init, AloneInv, Active, Idle
<1>2. ASSUME IInv, AloneInv, [Next]_vars PROVE AloneInv' /\ Leaves
  <2>1. ASSUME NEW r \in Requests, Request(r) PROVE AloneInv' /\ Leaves
    <3>1. ASSUME NEW p \in Requests, p # r, Active(p) PROVE req'[p].pc # "failed"
      <4>1. req'[p] = req[p] \/ Keeps(p)
        <5>1. CASE \E l : Go(r, l) \/ Writes(r, l)
          BY <1>2, <3>1, <5>1, GoKeeps, WritesAt
        <5>2. CASE \E do, id, v : Begin(r, do, id, v)
          BY <3>1, <5>2 DEF Begin
        <5>3. QED
          BY <2>1, <5>1, <5>2
          DEF Request, Save, Apply, Undo, Reapply, ReloadAgain
      <4>2. QED
        BY <3>1, <4>1 DEF Keeps, Active
    <3>2. AloneInv'
      BY <1>2, <2>1, BeginAlone, SaveAlone, ApplyAlone, UndoAlone DEF Request
    <3>3. ASSUME Active(r), req[r].alone, req'[r].pc = "failed",
                 ~(req[r].do = "create" /\ req[r].was # None)
          PROVE  row'[req[r].id] = req[r].was
      <4>1. CASE Undo(r)
        BY <1>2, <3>3, <4>1, UndoAlone
      <4>2. CASE Save(r)
        BY <1>2, <3>3, <4>2, SaveLeaves
      <4>3. CASE Apply(r) \/ Reapply(r) \/ ReloadAgain(r)
        <5>1. req[r].pc = "reapply" /\ UNCHANGED row
          BY <1>2, <3>3, <4>3, ApplyAlone DEF Apply, Reapply, ReloadAgain
        <5>2. QED
          BY <1>2, <3>3, <5>1 DEF AloneInv, AloneFinds
      <4>4. QED
        BY <1>2, <2>1, <3>3, <4>1, <4>2, <4>3, BeginAlone DEF Request
    <3>4. Leaves
      BY <3>1, <3>3
    <3>5. QED
      BY <3>2, <3>4
  <2>2. CASE UNCHANGED <<row, req>>
    BY <1>2, <2>2 DEF AloneInv, AloneFinds, Active
  <2>3. CASE Restart
    BY <2>3 DEF Restart, AloneInv, Active, Idle
  <2>4. QED
    BY <1>2, <2>1, <2>2, <2>3 DEF Next, Reconcile, Scan, List, ListDone,
       ReconcileStops, ReconcileReloads, Abandon, Installs, vars
<1>3. IInv /\ AloneInv /\ [Next]_vars => AloneInv'
  BY <1>2
<1>4. IInv /\ AloneInv /\ [Next]_vars => [Leaves]_vars
  BY <1>2
<1>5. QED
  BY Inductive, <1>1, <1>3, <1>4, PTL DEF Spec, FailedLeavesRow
=============================================================================
