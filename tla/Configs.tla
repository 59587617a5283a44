------------------------------- MODULE Configs -------------------------------
(* Shared configuration (service/cfg.rs).  A Storage is counted by hand: a     *)
(* Cfg<T> is a bare pointer to one value, which the storage owns or which is   *)
(* a default kept by a thread, and it stands for a count of the storage that   *)
(* the value's CfgContext names.  Storages are numbered by IDX; a value is     *)
(* its type, and in the model the context it was given.                        *)
EXTENDS Integers, Sequences, FiniteSets, Bags, TLC

CONSTANTS CfgThreads,      \* threads that use configurations
          CfgTypes,        \* types that implement Configuration
          MaxStorages,     \* bound on the storages created
          MaxHandles       \* bound on the handles held at a time

VARIABLE cf

\* What the program holds: a builder, a SharedCfg, a Cfg or a bare Configuration value, and the
\* thread it is on.  A Cfg with KIND_ARC set points to a default in a thread's MAPPING, otherwise
\* into the storage's data.  A bare value has a CfgContext too, which counts nothing.
Handle == [kind : {"builder", "shared", "cfg", "value"}, at : CfgThreads, store : 1..MaxStorages,
           type : CfgTypes \cup {"any"}, arc : BOOLEAN]
Builder(t, id) == [kind |-> "builder", at |-> t, store |-> id, type |-> "any", arc |-> FALSE]
Shared(t, id) == [kind |-> "shared", at |-> t, store |-> id, type |-> "any", arc |-> FALSE]
Value(t, id, T) == [kind |-> "value", at |-> t, store |-> id, type |-> T, arc |-> FALSE]
Cfg(t, id, T, arc) == [kind |-> "cfg", at |-> t, store |-> id, type |-> T, arc |-> arc]

ConfigsInit ==
    cf = [stores |-> <<>>,                          \* Storage: count, ctx, building, data
          default |-> [t \in CfgThreads |-> 0],     \* DEFAULT_CFG, 0 before its first use
          items |-> <<>>,                           \* the Arcs made for MAPPING: count, ctx
          handles |-> EmptyBag,
          exited |-> {},
          dangling |-> FALSE]                       \* a freed storage was used: anything may follow

Held(c) == BagToSet(c.handles)
Hold(c, h) == [c EXCEPT !.handles = @ (+) SetToBag({h})]
Release(c, h) == [c EXCEPT !.handles = @ (-) SetToBag({h})]
Count(c, id, n) == [c EXCEPT !.stores[id].count = @ + n]
Key(h) == <<h.at, h.store, h.type>>
InMapping(c, k) == k \in DOMAIN c.items

\* Arc::new(Storage::new(..)): the context is set to the storage itself afterwards.
StorageNew(c, building) ==
    [c EXCEPT !.stores = Append(@, [count |-> 1, ctx |-> Len(@) + 1, building |-> building, data |-> <<>>])]

\* The first use of DEFAULT_CFG on a thread creates its storage.
DefaultCfg(c, t) ==
    IF c.default[t] # 0 THEN c
    ELSE [StorageNew(c, FALSE) EXCEPT !.default[t] = Len(c.stores) + 1]

\* SharedCfg::new: CfgContext::default() is evaluated first, so the thread's default storage exists.
BuilderNew(c, t) ==
    LET s == StorageNew(DefaultCfg(c, t), TRUE)
    IN  Hold(s, Builder(t, Len(s.stores)))

\* SharedCfgBuilder::add: a value of the same type is replaced.
BuilderAdd(c, h, T) == [c EXCEPT !.stores[h.store].data = (T :> c.stores[h.store].ctx) @@ @]

\* SharedCfgBuilder::build.
BuilderBuild(c, h) ==
    Hold(Release([c EXCEPT !.stores[h.store].building = FALSE], h), Shared(h.at, h.store))

\* Mutant: counts the value instead of the storage when the value is a default.
GetCountsItem(c, t, id, T) ==
    LET k == <<t, id, T>>
    IN  IF T \in DOMAIN c.stores[id].data THEN Hold(Count(c, id, 1), Cfg(t, id, T, FALSE))
        ELSE IF InMapping(c, k) THEN Hold([c EXCEPT !.items[k].count = @ + 1], Cfg(t, id, T, TRUE))
        ELSE Hold([c EXCEPT !.items = @ @@ (k :> [count |-> 2, ctx |-> c.stores[id].ctx])],
                  Cfg(t, id, T, TRUE))

\* get: a count of the storage, and the value in its data or the thread's default for it.
Get(c, t, id, T) ==
    LET s == Count(c, id, 1)
        k == <<t, id, T>>
    IN  IF T \in DOMAIN c.stores[id].data THEN Hold(s, Cfg(t, id, T, FALSE))
        ELSE IF InMapping(c, k) THEN Hold([s EXCEPT !.items[k].count = @ + 1], Cfg(t, id, T, TRUE))
        ELSE Hold([s EXCEPT !.items = @ @@ (k :> [count |-> 2, ctx |-> c.stores[id].ctx])],
                  Cfg(t, id, T, TRUE))

\* The context of the value a Cfg points to.
Ctx(c, h) == IF h.arc THEN c.items[Key(h)].ctx ELSE c.stores[h.store].data[h.type]

\* CfgContext::shared.
CtxShared(c, t, id) == Hold(Count(c, id, 1), Shared(t, id))

\* From<&T> for Cfg: the value's context is taken for the storage, which it does not keep.
FromValue(c, h) ==
    IF c.stores[h.store].count = 0 THEN [c EXCEPT !.dangling = TRUE] ELSE Get(c, h.at, h.store, h.type)

\* Drop for Cfg: the storage is given back first, which may free a value in its data; what
\* follows looks only at the pointer's tag and at a default.
CfgDrop(c, h) ==
    LET s == Release(Count(c, Ctx(c, h), -1), h)
    IN  IF h.arc THEN [s EXCEPT !.items[Key(h)].count = @ - 1] ELSE s

\* A SharedCfg or a builder is an Arc.
SharedDrop(c, h) == Release(Count(c, h.store, -1), h)

\* Cfg::replace swaps the two pointers; the argument, which now has the old one, is dropped.
CfgReplace(c, h, g) == CfgDrop(c, h)

\* The end of a thread drops MAPPING and DEFAULT_CFG.  Nothing of it is on the thread any more.
ThreadExit(c, t) ==
    LET s == [c EXCEPT !.items = [k \in DOMAIN @ |-> IF k[1] = t THEN [@[k] EXCEPT !.count = @ - 1] ELSE @[k]],
                       !.exited = @ \cup {t}]
    IN  IF c.default[t] = 0 THEN s ELSE Count(s, c.default[t], -1)

-----------------------------------------------------------------------------

Room(n) == BagCardinality(cf.handles) + n =< MaxHandles
StorageRoom(n) == Len(cf.stores) + n =< MaxStorages
OfKind(k) == {h \in Held(cf) : h.kind = k}
Running == CfgThreads \ cf.exited
DefaultCost(t) == IF cf.default[t] = 0 THEN 1 ELSE 0

New == \E t \in Running : Room(1) /\ StorageRoom(1 + DefaultCost(t)) /\ cf' = BuilderNew(cf, t)
Add == \E h \in OfKind("builder"), T \in CfgTypes : cf' = BuilderAdd(cf, h, T)
Build == \E h \in OfKind("builder") : cf' = BuilderBuild(cf, h)

\* SharedCfg::default, and Cfg::default, whose SharedCfg is a temporary.
SharedDefault == \E t \in Running :
    Room(1) /\ StorageRoom(DefaultCost(t)) /\ LET d == DefaultCfg(cf, t) IN cf' = CtxShared(d, t, d.default[t])
CfgDefault == \E t \in Running, T \in CfgTypes :
    Room(1) /\ StorageRoom(DefaultCost(t)) /\ LET d == DefaultCfg(cf, t) IN cf' = Get(d, t, d.default[t], T)

SharedGet == \E h \in OfKind("shared"), T \in CfgTypes : Room(1) /\ cf' = Get(cf, h.at, h.store, T)
SharedClone == \E h \in OfKind("shared") : Room(1) /\ cf' = CtxShared(cf, h.at, h.store)

\* Cfg::get_shared; with the handle's own type it is clone.
CfgGetShared == \E h \in OfKind("cfg"), T \in CfgTypes : Room(1) /\ cf' = Get(cf, h.at, Ctx(cf, h), T)
CfgShared == \E h \in OfKind("cfg") : Room(1) /\ cf' = CtxShared(cf, h.at, Ctx(cf, h))

\* T::default(), whose context is CfgContext::default().
ValueDefault == \E t \in Running, T \in CfgTypes :
    Room(1) /\ StorageRoom(DefaultCost(t)) /\ LET d == DefaultCfg(cf, t) IN cf' = Hold(d, Value(t, d.default[t], T))
ValueCfg == \E h \in OfKind("value") : Room(1) /\ cf' = FromValue(cf, h)

Replace == \E h, g \in OfKind("cfg") :
    /\ h.at = g.at /\ h.type = g.type
    /\ h = g => cf.handles[h] > 1
    /\ cf' = CfgReplace(cf, h, g)

DropHandle ==
    \/ \E h \in OfKind("cfg") : cf' = CfgDrop(cf, h)
    \/ \E h \in OfKind("shared") \cup OfKind("builder") : cf' = SharedDrop(cf, h)
    \/ \E h \in OfKind("value") : cf' = Release(cf, h)

\* A builder, a SharedCfg and a bare value may be moved to another thread, a Cfg may not.
Send == \E h \in Held(cf) \ OfKind("cfg") : \E t \in Running \ {h.at} :
    cf' = Hold(Release(cf, h), [h EXCEPT !.at = t])

Exit == \E t \in Running : (\A h \in Held(cf) : h.at # t) /\ cf' = ThreadExit(cf, t)

ConfigsNext ==
    /\ ~cf.dangling
    /\ \/ New \/ Add \/ Build \/ SharedDefault \/ CfgDefault \/ SharedGet \/ SharedClone \/ CfgGetShared
       \/ CfgShared \/ ValueDefault \/ ValueCfg \/ Replace \/ DropHandle \/ Send \/ Exit

-----------------------------------------------------------------------------

Copies(P(_)) == BagCardinality([h \in {g \in Held(cf) : P(g)} |-> cf.handles[h]])

\* A storage is counted once for each counted handle whose value or pointer names it and for the
\* thread whose default it is, and a thread's default value once for each Cfg on it and for
\* MAPPING: so none is freed while such a handle can reach it, and none outlives the last one.  The
\* value of a Cfg is there, and its context is the storage the Cfg was asked of.  Only a bare value
\* may name a freed storage, and only the default of a thread that has ended, which it was made on
\* and moved away from (cfg.rs get, Drop for Cfg, CfgContext, From<&T>).
ConfigsCounted ==
    /\ \A id \in 1..Len(cf.stores) :
          cf.stores[id].count = Copies(LAMBDA h : CASE h.kind = "cfg" -> Ctx(cf, h) = id
                                                    [] h.kind = "value" -> FALSE
                                                    [] OTHER -> h.store = id)
                                + Cardinality({t \in Running : cf.default[t] = id})
    /\ \A k \in DOMAIN cf.items :
          cf.items[k].count = Copies(LAMBDA h : h.arc /\ Key(h) = k) + (IF k[1] \in Running THEN 1 ELSE 0)
    /\ \A h \in Held(cf) :
          /\ \/ cf.stores[h.store].count > 0
             \/ h.kind = "value" /\ \E t \in cf.exited \ {h.at} : cf.default[t] = h.store
          /\ h.kind = "cfg" => Ctx(cf, h) = h.store
=============================================================================
