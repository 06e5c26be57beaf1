--------------------------- MODULE Configuration ----------------------------
(***************************************************************************)
(* How the configuration comes to be what runs: the requests of the API    *)
(* that create, update and delete connections, groups, tags and north      *)
(* applications (internal/web/handler), the rows they write                *)
(* (internal/store), the plugin types they refer to (externalplugin        *)
(* manager and the registries of core), the reloads that apply a row, and  *)
(* the reconciliation that applies a change of the plugins.                *)
(*                                                                         *)
(* A request is a goroutine of the web server and holds no lock between    *)
(* its steps: reading and checking, each transaction, each reload.  A      *)
(* reload is one step, because it holds lifecycleMu; SouthRuntime and      *)
(* NorthRuntime open it up.                                                *)
(***************************************************************************)
EXTENDS Naturals, FiniteSets

CONSTANTS
    Conns, Groups, Tags, Apps,
    Requests,       \* goroutines of the API, each of which serves one request
    Scanners,       \* who reconciles: the watcher, and the API
    DriverTypes, NorthTypes,
    Plugins,        \* those of the types that are external
    MaxVersion,     \* of a manifest (bound)
    Sent,           \* Sent[id]: the rows a client may ask for
    FirstRow,       \* the rows of the database at the beginning
    MaxChanges,     \* changes of the plugin directory (bound)
    MaxRestarts,    \* crashes followed by a start (bound)
    None

Ids   == Conns \cup Groups \cup Tags \cup Apps
Types == DriverTypes \cup NorthTypes

(* A row, as far as the runtime depends on it.  The bindings of a group    *)
(* are the field north, since every transaction that writes or deletes a   *)
(* group does the same to its bindings; legacy is the old column that the  *)
(* code only reads; val stands for everything else of a tag.               *)
PluginRow(types) == [type : types, on : BOOLEAN]
GroupRow == [parent : Conns, on : BOOLEAN, north : SUBSET Apps,
             legacy : SUBSET Apps]
TagRow == [parent : Groups, val : Nat]
RowOf(id) == CASE id \in Conns  -> PluginRow(DriverTypes)
               [] id \in Apps   -> PluginRow(NorthTypes)
               [] id \in Groups -> GroupRow
               [] id \in Tags   -> TagRow

ASSUME RowsOK == \A id \in Ids : /\ Sent[id] \subseteq RowOf(id)
                                 /\ FirstRow[id] \in RowOf(id) \cup {None}
ASSUME FirstTable == FirstRow = [id \in Ids |-> FirstRow[id]]
ASSUME BoundsOK == /\ Plugins \subseteq Types
                   /\ {MaxVersion, MaxChanges, MaxRestarts} \subseteq Nat
ASSUME Apart ==
    /\ \A id \in Ids : None # id /\ None \notin RowOf(id)
    /\ None \notin [type : Types, version : Nat]
    /\ None \notin [parent : Conns, north : SUBSET Apps, tags : SUBSET (Tags \X Nat)]
ASSUME Disjoint ==
    /\ Conns \cap Groups = {} /\ Conns \cap Tags = {} /\ Conns \cap Apps = {}
    /\ Groups \cap Tags = {} /\ Groups \cap Apps = {} /\ Tags \cap Apps = {}

VARIABLES
    row,       \* the tables
    run,       \* r.connections, r.northApps and r.groups
    disk, reg, \* the version of each type in the directory and in the
               \* registries, 0 if absent; m.plugins is reg of the Plugins
    req,       \* the requests
    scan,      \* the reconciliations
    pending,   \* what has been written, or whose type has changed, and has
               \* not been applied since
    trouble,   \* something has failed or was overtaken
    changes, restarts
vars == <<row, run, disk, reg, req, scan, pending, trouble, changes, restarts>>

-----------------------------------------------------------------------------
(* Store.                                                                  *)

Children(id) == {i \in Groups \cup Tags : row[i] # None /\ row[i].parent = id}

(* DeleteConnection, DeleteGroup, DeleteTag.                               *)
Without(gone) == [i \in Ids |-> IF i \in gone THEN None ELSE row[i]]

Deleted(id) ==
    IF id \in Apps
    THEN [i \in Ids |-> IF i = id THEN None
                        ELSE IF i \in Groups /\ row[i] # None
                        THEN [row[i] EXCEPT !.north = @ \ {id}]
                        ELSE row[i]]
    ELSE Without({id} \cup Children(id)
                      \cup UNION {Children(g) : g \in Children(id)})

(* persistConnection, persistGroup, persistNorthApp and SaveTag when the   *)
(* row may exist: gorm's Save updates it, and inserts it if it is not      *)
(* there.  An insertion takes FALSE for the column's default, which is     *)
(* TRUE; persist... corrects that for a creation only.                     *)
Upsert(id, v) ==
    LET new == row[id] = None
        up  == IF new /\ id \notin Tags THEN [v EXCEPT !.on = TRUE] ELSE v
    IN  [row EXCEPT ![id] =
           IF id \in Groups
           THEN [up EXCEPT !.legacy = IF new THEN {} ELSE row[id].legacy]
           ELSE up]

Inserted(id, v) ==
    [row EXCEPT ![id] = IF id \in Groups THEN [v EXCEPT !.legacy = {}] ELSE v]

-----------------------------------------------------------------------------
(* Reloads.  Each operator is the runtime after the call has succeeded.    *)

On(id) == row[id] # None /\ row[id].on
TagsOf(g) == {t \in Tags : row[t] # None /\ row[t].parent = g}
Instance(id) == [type |-> row[id].type, version |-> reg[row[id].type]]
GroupRun(g) == [parent |-> row[g].parent, north |-> row[g].north,
                tags |-> {<<t, row[t].val>> : t \in TagsOf(g)}]

RunningOn(c) == {g \in Groups : run[g] # None /\ run[g].parent = c}

(* The groups that a connection stops and starts with it.                  *)
StoppedWith(c) == {g \in RunningOn(c) : row[g] # None => row[g].parent = c}
StartedWith(c) == {g \in Groups : On(g) /\ row[g].parent = c /\ run[g] = None}

Stopped(gone) == [i \in Ids |-> IF i \in gone THEN None ELSE run[i]]

(* startConnection: the groups that run keep running on the new instance.  *)
StartedAlone(id) == [run EXCEPT ![id] = Instance(id)]

(* Mutant: the groups that were stopped with the connection stay down.     *)
ConnectionUpAlone(c) == StartedAlone(c)

(* ReloadConnection starts the groups of the connection that do not run.   *)
ConnectionUp(c) ==
    [i \in Ids |-> IF i \in StartedWith(c)
                   THEN GroupRun(i) ELSE StartedAlone(c)[i]]

Detached(a) == [i \in Ids |-> CASE i = a -> None
                                [] i \in Groups /\ run[i] # None
                                     -> [run[i] EXCEPT !.north = @ \ {a}]
                                [] OTHER -> run[i]]

(* Whether ReloadConnection, ReloadNorthApp or Reload can succeed.         *)
CanReload(id) ==
    IF ~On(id) THEN TRUE
    ELSE IF id \in Groups THEN run[row[id].parent] # None
    ELSE reg[row[id].type] > 0

Reloaded(id) ==
    CASE On(id) /\ id \in Conns           -> ConnectionUp(id)
      [] On(id) /\ id \in Apps            -> StartedAlone(id)
      [] On(id) /\ id \in Groups          -> [run EXCEPT ![id] = GroupRun(id)]
      [] ~On(id) /\ id \in Conns          -> Stopped({id} \cup RunningOn(id))
      [] id \in Apps /\ row[id] = None    -> Detached(id)
      [] OTHER                            -> Stopped({id})

Refers(x, id) == x # None /\ id \in {x.parent} \cup x.north

(* The groups that run with id although their rows are gone or refer to    *)
(* another: when it was deleted and created again before its deletion was  *)
(* applied, they keep running.                                             *)
Left(id) == {g \in Groups : Refers(run[g], id) /\ ~Refers(row[g], id)}

(* The deletion of an application detaches every group that runs with it,  *)
(* also one that has been bound to it again since the rows were deleted.   *)
BoundAgain(id) == {g \in Groups : Refers(run[g], id) /\ Refers(row[g], id)}

Overtaken(id) == IF id \in Apps /\ row[id] = None THEN BoundAgain(id)
                 ELSE IF id \in Apps \/ On(id) THEN Left(id)
                 ELSE {}

(* The groups that come with a reload.                                     *)
Along(id) == IF id \notin Conns THEN {}
             ELSE IF On(id) THEN StartedWith(id) ELSE StoppedWith(id)

ReloadSucceeds(id) ==
    /\ CanReload(id)
    /\ run' = Reloaded(id)
    /\ pending' = (pending \ ({id} \cup Along(id))) \cup Overtaken(id)
    /\ trouble' = (trouble \/ Overtaken(id) # {})

(* It fails before it has changed anything: the type or the connection is  *)
(* not there, the replacement does not connect, the database has an error. *)
(* Or a connection runs again and its groups cannot be listed or started.  *)
ReloadFails(id) ==
    /\ \/ UNCHANGED <<run, pending>>
       \/ /\ id \in Conns /\ On(id) /\ CanReload(id)
          /\ run' = StartedAlone(id)
          /\ pending' = pending \cup StartedWith(id)
    /\ trouble' = TRUE

-----------------------------------------------------------------------------
(* Handlers.                                                               *)

Idle == [pc |-> "new"]
Active(r) == req[r].pc \in {"save", "apply", "undo", "reapply"}
Reached(r, l) == IF l \in {"done", "failed", "broken"} THEN [pc |-> l]
                 ELSE [req[r] EXCEPT !.pc = l]
Go(r, l) == req' = [req EXCEPT ![r] = Reached(r, l)]

(* The store has been written by r: no other request is alone with it.     *)
Writes(r, l) ==
    req' = [q \in Requests |->
              IF q = r THEN Reached(r, l)
              ELSE IF Active(q) THEN [req[q] EXCEPT !.alone = FALSE]
              ELSE req[q]]

(* What a request reloads: a tag is collected by its group.                *)
Target(r) == LET q == req[r] IN
             IF q.id \notin Tags THEN q.id
             ELSE IF q.do = "delete" THEN q.was.parent ELSE q.new.parent

(* Default...Config and Validate...Config need the descriptor of the type, *)
(* for a group or a tag that of its connection.                            *)
Known(c) == row[c] # None /\ reg[row[c].type] > 0
Valid(id, v) ==
    CASE id \in Groups -> Known(v.parent)
      [] id \in Tags   -> row[v.parent] # None /\ Known(row[v.parent].parent)
      [] OTHER         -> reg[v.type] > 0

(* A tag is created without looking whether there is one with its id.      *)
MayCreate(id, v) == (id \in Tags \/ row[id] = None) /\ Valid(id, v)

(* An update keeps the tag in its group.                                   *)
MayUpdate(id, v) ==
    /\ row[id] # None /\ Valid(id, v)
    /\ id \in Tags => v.parent = row[id].parent

(* Only a tag has to exist to be deleted.                                  *)
MayDelete(id) == id \in Tags => row[id] # None

(* The handler has read the row and checked the request.                   *)
Begin(r, do, id, v) ==
    /\ req[r] = Idle
    /\ CASE do = "create" -> MayCreate(id, v)
         [] do = "update" -> MayUpdate(id, v)
         [] do = "delete" -> MayDelete(id)
    /\ req' = [req EXCEPT ![r] = [pc |-> "save", do |-> do, id |-> id,
                                  new |-> v, was |-> row[id], alone |-> TRUE]]
    /\ UNCHANGED <<row, run, disk, reg, scan, pending, trouble, changes, restarts>>

(* The group that has the tag now, when the request is about another: it   *)
(* loses the tag to a creation with the same id, or to the deletion or the *)
(* rollback of a request that has read it before, and is not reloaded.     *)
Elsewhere(r) ==
    LET t == req[r].id IN
    IF t \in Tags /\ row[t] # None THEN {row[t].parent} \ {Target(r)} ELSE {}

(* What a deletion leaves to be applied.                                   *)
Touched(id) ==
    {id} \cup {g \in Groups : run[g] # None /\ row'[g] = None /\ row[g] # None}

(* The transaction of the request.  An insertion fails if another request  *)
(* has created the row; any transaction may fail, with nothing changed.  A *)
(* row that is created disabled is not reloaded, but a tag always is.      *)
Save(r) ==
    LET q == req[r] IN
    /\ q.pc = "save"
    /\ \/ Go(r, "failed") /\ UNCHANGED <<row, pending, trouble>>
       \/ /\ q.do = "create" /\ q.id \notin Tags /\ row[q.id] = None
          /\ row' = Inserted(q.id, q.new)
          /\ Writes(r, IF q.new.on THEN "apply" ELSE "done")
          /\ pending' = IF q.new.on THEN pending \cup {q.id} ELSE pending
          /\ trouble' = (trouble \/ (~q.new.on /\ run[q.id] # None))
       \/ /\ q.do = "update" \/ (q.do = "create" /\ q.id \in Tags)
          /\ row' = Upsert(q.id, q.new)
          /\ Writes(r, "apply")
          /\ pending' = pending \cup {Target(r)} \cup Elsewhere(r)
          /\ trouble' = (trouble \/ Elsewhere(r) # {})
       \/ /\ q.do = "delete"
          /\ row' = Deleted(q.id)
          /\ Writes(r, "apply")
          /\ pending' = pending \cup Touched(Target(r)) \cup Elsewhere(r)
          /\ trouble' = (trouble \/ Elsewhere(r) # {})
    /\ UNCHANGED <<run, disk, reg, scan, changes, restarts>>

(* The reload.  The deletion of a connection, a group or an application is *)
(* not rolled back when it fails.                                          *)
Apply(r) ==
    LET q == req[r] IN
    /\ q.pc = "apply"
    /\ \/ ReloadSucceeds(Target(r)) /\ Go(r, "done")
       \/ /\ ReloadFails(Target(r))
          /\ Go(r, IF q.do = "delete" /\ q.id \notin Tags THEN "broken" ELSE "undo")
    /\ UNCHANGED <<row, disk, reg, scan, changes, restarts>>

(* Mutant: the rollback of an update only reloads.                         *)
UndoKeepsRow(r) ==
    /\ req[r].pc = "undo"
    /\ Go(r, "reapply")
    /\ UNCHANGED <<row, run, disk, reg, scan, pending, trouble, changes, restarts>>

(* The rollback: what was created is deleted, and otherwise the row that   *)
(* the request read at its beginning is saved.  Only a created connection, *)
(* group or application is not reloaded afterwards.                        *)
Undo(r) ==
    LET q == req[r]
        gone == q.do = "create" /\ q.id \notin Tags
    IN
    /\ q.pc = "undo"
    /\ \/ Go(r, "broken") /\ UNCHANGED <<row, pending, trouble>>
       \/ /\ row' = IF q.do = "create" THEN Deleted(q.id) ELSE Upsert(q.id, q.was)
          /\ Writes(r, IF gone THEN "failed" ELSE "reapply")
          /\ pending' = pending \cup Touched(Target(r)) \cup Elsewhere(r)
          /\ trouble' = (trouble \/ Elsewhere(r) # {})
    /\ UNCHANGED <<run, disk, reg, scan, changes, restarts>>

Reapply(r) ==
    /\ req[r].pc = "reapply"
    /\ \/ ReloadSucceeds(Target(r))
       \/ ReloadFails(Target(r))
    /\ Go(r, "failed")
    /\ UNCHANGED <<row, disk, reg, scan, changes, restarts>>

(* A group or an application is reloaded on demand.                        *)
ReloadAgain(r) ==
    /\ req[r] = Idle
    /\ \E id \in Groups \cup Apps :
         \/ ReloadSucceeds(id) /\ Go(r, "done")
         \/ ReloadFails(id) /\ Go(r, "failed")
    /\ UNCHANGED <<row, disk, reg, scan, changes, restarts>>

-----------------------------------------------------------------------------
(* Plugins.                                                                *)

Installs(p, v) ==
    /\ changes < MaxChanges /\ disk[p] # v
    /\ disk' = [disk EXCEPT ![p] = v]
    /\ changes' = changes + 1
    /\ UNCHANGED <<row, run, reg, req, scan, pending, trouble, restarts>>

DiffPlugins == {p \in Plugins : disk[p] # reg[p]}

(* Manager.Reload, which holds reloadMu: the registries take over what has *)
(* changed, and m.plugins is the new state before anyone has applied it.   *)
Scan(s) ==
    LET diff == DiffPlugins IN
    /\ scan[s].phase = "idle" /\ diff # {}
    /\ reg' = disk
    /\ scan' = [scan EXCEPT ![s] =
                  [phase |-> "connections", listed |-> FALSE, types |-> diff,
                   removed |-> {p \in diff : disk[p] = 0}, todo |-> {}]]
    /\ pending' = pending \cup {id \in Conns \cup Apps : On(id) /\ row[id].type \in diff}
    /\ UNCHANGED <<row, run, disk, req, trouble, changes, restarts>>

Resting == [phase |-> "idle", listed |-> FALSE, types |-> {}, removed |-> {},
            todo |-> {}]

(* ReconcileExtensionTypes, outside reloadMu: the enabled connections are  *)
(* listed and dealt with one by one, and then the applications.            *)
Lists(s, ids) ==
    scan' = [scan EXCEPT ![s].listed = TRUE,
                         ![s].todo = {<<i, row[i].type>> : i \in
                            {j \in ids : On(j) /\ row[j].type \in scan[s].types}}]

List(s) ==
    /\ ~scan[s].listed
    /\ \/ scan[s].phase = "connections" /\ Lists(s, Conns)
       \/ scan[s].phase = "applications" /\ Lists(s, Apps)
    /\ UNCHANGED <<row, run, disk, reg, req, pending, trouble, changes, restarts>>

ListDone(s) ==
    /\ scan[s].listed /\ scan[s].todo = {}
    /\ scan' = [scan EXCEPT ![s] = IF @.phase = "connections"
                                   THEN [@ EXCEPT !.phase = "applications",
                                                  !.listed = FALSE]
                                   ELSE Resting]
    /\ UNCHANGED <<row, run, disk, reg, req, pending, trouble, changes, restarts>>

Dealt(s, e) == scan' = [scan EXCEPT ![s].todo = @ \ {e}]

Wanted(id) == On(id) /\ CanReload(id)
Astray(id) == IF id \in Apps /\ row[id] # None THEN Left(id) ELSE {}

(* The instance of a type that was removed is stopped without looking at   *)
(* the row again, which may have been given another type since, or at the  *)
(* registry, which may have the type again.                                *)
ReconcileStops(s) ==
    /\ scan[s].listed
    /\ \E e \in scan[s].todo :
         LET id == e[1] IN
         /\ e[2] \in scan[s].removed
         /\ run' = Stopped({id} \cup RunningOn(id))
         /\ pending' =
              (IF row[id] = None THEN pending               \* its deletion reloads
               ELSE IF Wanted(id) THEN pending \cup {id} \cup Astray(id)
               ELSE (pending \ {id}) \cup Astray(id)) \ StoppedWith(id)
         /\ trouble' = (trouble \/ Wanted(id) \/ Astray(id) # {})
         /\ Dealt(s, e)
    /\ UNCHANGED <<row, disk, reg, req, changes, restarts>>

(* Mutant: a type that is replaced is not reloaded.                        *)
ReconcileSkips(s) ==
    /\ scan[s].listed
    /\ \E e \in scan[s].todo : e[2] \notin scan[s].removed /\ Dealt(s, e)
    /\ UNCHANGED <<row, run, disk, reg, req, pending, trouble, changes, restarts>>

ReconcileReloads(s) ==
    /\ scan[s].listed
    /\ \E e \in scan[s].todo :
         /\ e[2] \notin scan[s].removed
         /\ ReloadSucceeds(e[1])
         /\ Dealt(s, e)
    /\ UNCHANGED <<row, disk, reg, req, changes, restarts>>

(* The first error ends it, and nobody tries again: m.plugins has the new  *)
(* manifests already, so the next scan sees no change.                     *)
Abandon(s) ==
    /\ scan[s].listed
    /\ \E e \in scan[s].todo : e[2] \notin scan[s].removed /\ ReloadFails(e[1])
    /\ scan' = [scan EXCEPT ![s] = Resting]
    /\ UNCHANGED <<row, disk, reg, req, changes, restarts>>

-----------------------------------------------------------------------------
(* Start, the first or the one after a crash: Migrate copies the legacy    *)
(* bindings, the manager scans, and everything that can be started is.     *)
Migrated == [i \in Ids |-> IF i \in Groups /\ row[i] # None
                           THEN [row[i] EXCEPT !.north = @ \cup row[i].legacy]
                           ELSE row[i]]

(* What should run: what is enabled, of a type that is registered; and of  *)
(* the groups, those whose connection is in up.                            *)
Ought(rows, regs, up) ==
    [i \in Ids |->
       IF i \in Tags \/ rows[i] = None \/ (i \notin Tags /\ ~rows[i].on) THEN None
       ELSE IF i \notin Groups
       THEN IF regs[rows[i].type] = 0 THEN None
            ELSE [type |-> rows[i].type, version |-> regs[rows[i].type]]
       ELSE IF up[rows[i].parent] = None THEN None
       ELSE [parent |-> rows[i].parent, north |-> rows[i].north,
             tags |-> {<<t, rows[t].val>> : t \in
                {u \in Tags : rows[u] # None /\ rows[u].parent = i}}]]

Nothing == [i \in Ids |-> None]

(* A connection that does not connect is started all the same; the process *)
(* of an external application may not come up, which is only logged.       *)
Booted(rows, down) ==
    LET all == Ought(rows, disk, Ought(rows, disk, Nothing))
    IN [i \in Ids |-> IF i \in down THEN None ELSE all[i]]

Restart ==
    /\ restarts < MaxRestarts
    /\ restarts' = restarts + 1
    /\ row' = Migrated
    /\ reg' = disk
    /\ \E down \in SUBSET {a \in Apps : On(a) /\ row[a].type \in Plugins} :
         /\ run' = Booted(Migrated, down)
         /\ pending' = down /\ trouble' = (down # {})
    /\ req' = [r \in Requests |-> IF req[r] = Idle THEN Idle ELSE [pc |-> "broken"]]
    /\ scan' = [s \in Scanners |-> Resting]
    /\ UNCHANGED <<disk, changes>>

Init ==
    /\ disk = [t \in Types |-> 1]
    /\ reg = disk
    /\ row = FirstRow
    /\ run = Booted(FirstRow, {})
    /\ req = [r \in Requests |-> Idle]
    /\ scan = [s \in Scanners |-> Resting]
    /\ pending = {} /\ trouble = FALSE
    /\ changes = 0 /\ restarts = 0

Request(r) ==
    \/ \E do \in {"create", "update", "delete"}, id \in Ids :
         \E v \in IF do = "delete" THEN {None} ELSE Sent[id] : Begin(r, do, id, v)
    \/ Save(r) \/ Apply(r) \/ Undo(r) \/ Reapply(r) \/ ReloadAgain(r)

Reconcile(s) == \/ Scan(s) \/ List(s) \/ ListDone(s)
                \/ ReconcileStops(s) \/ ReconcileReloads(s) \/ Abandon(s)

Next ==
    \/ \E r \in Requests : Request(r)
    \/ \E s \in Scanners : Reconcile(s)
    \/ \E p \in Plugins, v \in 0..MaxVersion : Installs(p, v)
    \/ Restart

Spec == Init /\ [][Next]_vars

-----------------------------------------------------------------------------
AtRest == /\ \A r \in Requests : ~Active(r)
          /\ \A s \in Scanners : scan[s] = Resting

SameGroup(x, y) ==
    /\ x.parent = y.parent /\ x.tags = y.tags
    /\ x.north \ pending = y.north \ pending

(* Every connection, application and group that is not pending runs        *)
(* exactly as the rows and the registries say, with the version of its     *)
(* type, its connection, its tags and its bindings to the applications     *)
(* that are not pending; and nothing else runs.  So it is at every moment, *)
(* however requests, rollbacks, reconciliations and crashes interleave.    *)
FollowsRows ==
    \A id \in Ids \ pending :
        LET should == Ought(row, reg, run)[id] IN
        IF id \in Groups /\ run[id] # None /\ should # None
        THEN SameGroup(run[id], should) ELSE run[id] = should

(* When no request and no reconciliation is under way nothing is pending,  *)
(* unless a reload has failed, or has been overtaken by the deletion and   *)
(* creation of what it is about.                                           *)
NothingForgotten == AtRest /\ ~trouble => pending = {}

(* A request that fails, and whose rollback does not, leaves the row and   *)
(* the bindings it is about as it has found them, if no other request has  *)
(* written to the store in the meantime: also when the reload had begun to *)
(* apply it.  Except the creation of a tag with the id of another one.     *)
FailedLeavesRow ==
    [][\A r \in Requests :
         LET q == req[r] IN
         /\ Active(r) /\ q.alone /\ req'[r].pc = "failed"
         /\ ~(q.do = "create" /\ q.was # None)
         => row'[q.id] = q.was]_vars

-----------------------------------------------------------------------------
(* The inductive invariants of the proofs.                                 *)

RunInstance == [type : Types, version : Nat]
RunGroup == [parent : Conns, north : SUBSET Apps, tags : SUBSET (Tags \X Nat)]
RunOf(id) == CASE id \in Conns \cup Apps -> RunInstance
               [] id \in Groups          -> RunGroup
               [] id \in Tags            -> {}

AnyRow == PluginRow(Types) \cup GroupRow \cup TagRow \cup {None}
AnyRun == RunInstance \cup RunGroup \cup {None}

RowTable(f) == /\ f \in [Ids -> AnyRow]
               /\ \A id \in Ids : f[id] \in RowOf(id) \cup {None}
RunTable(f) == /\ f \in [Ids -> AnyRun]
               /\ \A id \in Ids : f[id] \in RunOf(id) \cup {None}
TablesType == RowTable(row) /\ RunTable(run)

PluginsType ==
    /\ disk \in [Types -> Nat]
    /\ reg \in [Types -> Nat]
    /\ changes \in Nat /\ restarts \in Nat

OpenRequest == [pc : {"save", "apply", "undo", "reapply"},
                do : {"create", "update", "delete"}, id : Ids,
                new : AnyRow, was : AnyRow, alone : BOOLEAN]
ClosedRequest == [pc : {"new", "done", "failed", "broken"}]

RequestsType == req \in [Requests -> OpenRequest \cup ClosedRequest]

ScansType ==
    scan \in [Scanners -> [phase : {"idle", "connections", "applications"},
                           listed : BOOLEAN,
                           types : SUBSET Plugins, removed : SUBSET Plugins,
                           todo : SUBSET ((Conns \cup Apps) \X Types)]]

BooksType == pending \subseteq Ids \ Tags /\ trouble \in BOOLEAN

(* Every variable has its type.                                            *)
TypeOK == TablesType /\ PluginsType /\ RequestsType /\ ScansType /\ BooksType

(* What a request knows of the row it has read, and which requests are     *)
(* rolled back.                                                            *)
RequestOK(q) ==
    /\ q.was \in RowOf(q.id) \cup {None}
    /\ q.do # "delete" => q.new \in RowOf(q.id)
    /\ q.do = "update" => q.was # None
    /\ q.do = "update" /\ q.id \in Tags => q.new.parent = q.was.parent
    /\ q.do = "delete" /\ q.id \in Tags => q.was # None
    /\ q.do = "create" /\ q.id \notin Tags => q.was = None
    /\ q.do = "delete" /\ q.id \notin Tags => q.pc \in {"save", "apply"}
    /\ q.do = "create" /\ q.id \notin Tags => q.pc # "reapply"
RequestsOK == \A r \in Requests : Active(r) => RequestOK(req[r])

ScansOK ==
    \A s \in Scanners :
        /\ scan[s].phase = "idle" => scan[s] = Resting
        /\ ~scan[s].listed => scan[s].todo = {}

(* Only the versions of plugins change.                                    *)
BuiltinsFixed == \A t \in Types \ Plugins : reg[t] = disk[t]

(* FollowsRows, with what it takes to preserve it: a running group is      *)
(* bound to all the applications of its row, and to others only as long as *)
(* these are pending.                                                      *)
Current(id) ==
    IF ~Wanted(id) THEN run[id] = None
    ELSE IF id \in Groups
    THEN /\ run[id] # None
         /\ run[id].parent = row[id].parent
         /\ run[id].tags = GroupRun(id).tags
         /\ row[id].north \subseteq run[id].north
         /\ run[id].north \subseteq row[id].north \cup pending
    ELSE run[id] = Instance(id)
Follows == \A id \in (Ids \ Tags) \ pending : Current(id)

IInv == TypeOK /\ RequestsOK /\ ScansOK /\ BuiltinsFixed /\ Follows

(* Who will apply what is pending: a request that reloads it, or that      *)
(* reloads the connection a deleted group runs on; or a reconciliation     *)
(* that has it on its list, or will list it.                               *)
Applies(r, id) == req[r].pc = "apply" /\ Target(r) = id

WillList(s, id) ==
    /\ On(id)
    /\ row[id].type \in scan[s].types
    /\ \/ scan[s].phase = "connections" /\ (id \in Conns => ~scan[s].listed)
       \/ scan[s].phase = "applications" /\ id \in Apps /\ ~scan[s].listed

Deals(s, id) == (\E e \in scan[s].todo : e[1] = id) \/ WillList(s, id)

Covered(id) ==
    \/ \E r \in Requests : Applies(r, id)
    \/ /\ id \in Groups /\ row[id] = None /\ run[id] # None
       /\ \E r \in Requests : Applies(r, run[id].parent)
    \/ /\ id \in Conns \cup Apps /\ row[id] # None
       /\ \E s \in Scanners : Deals(s, id)

Untroubled ==
    ~trouble => /\ \A r \in Requests : req[r].pc \notin {"undo", "reapply"}
                /\ \A id \in pending : Covered(id)

(* What a request that is alone with the store finds there.                *)
AloneFinds(q) ==
    /\ q.pc = "save" => row[q.id] = q.was
    /\ q.do = "update" /\ q.pc \in {"apply", "undo"} =>
          /\ row[q.id] # None
          /\ q.id \in Groups => row[q.id].legacy = q.was.legacy
    /\ q.pc = "reapply" /\ ~(q.do = "create" /\ q.was # None) =>
          row[q.id] = q.was
AloneInv == \A r \in Requests : Active(r) /\ req[r].alone => AloneFinds(req[r])
=============================================================================
