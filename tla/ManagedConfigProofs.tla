------------------------- MODULE ManagedConfigProofs -------------------------
(***************************************************************************)
(* Invariants of ManagedConfig for any number of administrators,           *)
(* operations, policies, template groups and documents.                    *)
(***************************************************************************)
EXTENDS ManagedConfig, SelectionProofs

\* The locals of a goroutine and of an operation.
Locals == [step : Steps, enforce : BOOLEAN, files : Seq(Keys), todo : Seq(YAML), alone : BOOLEAN]
OpLocals == [step : {"idle", "validate", "decide", "decided"}, code : Codes,
             risk : Risks, approval : BOOLEAN, boot : BOOLEAN]

\* A document of S allows template c; a document of S gives it risk r.
AllowedIn(S, c) == \E y \in S : y.kind = "policies" /\ c \in y.allowed
GivenIn(S, c, r) ==
    \E y \in S : y.kind = "templates" /\ \E t \in ToSet(y.templates) : t.code = c /\ t.risk = r

\* What is left to apply of a document is part of a document of S.
PartOf(d, S) ==
    \/ d.kind = "policies" /\ \E y \in S : y.kind = "policies" /\ y.allowed = d.allowed
    \/ /\ d.kind = "templates" /\ d.templates # <<>>
       /\ \E y \in S : y.kind = "templates" /\ ToSet(d.templates) \subseteq ToSet(y.templates)

\* A goroutine that reloads applies parts of documents of S.
AdmOK(r, S) ==
    /\ r \in Locals
    /\ r.step \in {"sync", "import"} => r.files # <<>>
    /\ r.step \in {"apply", "reset", "fill"} => r.todo # <<>>
    /\ r.step \in {"reset", "fill"} => r.todo[1].kind = "policies"
    /\ r.step = "fill" => r.todo[1].levels # <<>>
    /\ \A i \in DOMAIN r.todo : PartOf(r.todo[i], S)

\* An operation has its risk from a document of S and, once it is validated, is
\* allowed by one.
OpOK(r, S) ==
    /\ r \in OpLocals
    /\ r.step \in {"validate", "decide"} => GivenIn(S, r.code, r.risk)
    /\ r.step \in {"decide", "decided"} => AllowedIn(S, r.code)
    /\ r.step = "decided" => \E q \in Risks : GivenIn(S, r.code, q) /\ MergeRisk(q) = r.risk

\* Rows that are active, or have been, are in the history.
TableInv ==
    /\ configs \in [Keys -> Rows \cup {NoRow}]
    /\ age \in Seq(Keys)
    /\ seen \in SUBSET YAML
    /\ \A k \in Keys : configs[k] # NoRow => configs[k].yaml.kind = KindOf(k)
    /\ \A k \in Keys : Active(k) => configs[k].yaml \in seen

\* The registry and the engine hold nothing else.
EngineInv ==
    /\ modules \in [Codes -> Risks \cup {"none"}]
    /\ allowed \in SUBSET Codes
    /\ levels \in SUBSET Risks
    /\ \A c \in allowed : AllowedIn(seen, c)
    /\ \A c \in Codes : modules[c] # "none" => GivenIn(seen, c, modules[c])

AdmInv == /\ adm = [a \in Admins |-> adm[a]]
          /\ \A a \in Admins : AdmOK(adm[a], seen)

OpInv == /\ op = [o \in Ops |-> op[o]]
         /\ \A o \in Ops : OpOK(op[o], seen)

ConfigInv == TableInv /\ EngineInv /\ AdmInv /\ OpInv

-----------------------------------------------------------------------------
(* Lemmas about the operators.                                             *)

\* The history only grows, and what it grounds stays grounded.
LEMMA Monotone ==
    ASSUME NEW S, NEW T, S \subseteq T
    PROVE  /\ \A c : AllowedIn(S, c) => AllowedIn(T, c)
           /\ \A c, r : GivenIn(S, c, r) => GivenIn(T, c, r)
           /\ \A d : PartOf(d, S) => PartOf(d, T)
           /\ \A r : AdmOK(r, S) => AdmOK(r, T)
           /\ \A r : OpOK(r, S) => OpOK(r, T)
<1>1. \A c : AllowedIn(S, c) => AllowedIn(T, c)
  BY DEF AllowedIn
<1>2. \A c, r : GivenIn(S, c, r) => GivenIn(T, c, r)
  BY DEF GivenIn
<1>3. \A d : PartOf(d, S) => PartOf(d, T)
  BY DEF PartOf
<1>4. \A r : AdmOK(r, S) => AdmOK(r, T)
  BY <1>3 DEF AdmOK
<1>5. \A r : OpOK(r, S) => OpOK(r, T)
  BY <1>1, <1>2 DEF OpOK
<1> QED BY <1>1, <1>2, <1>3, <1>4, <1>5

\* A goroutine without a list.
LEMMA AtOK ==
    ASSUME NEW S, NEW s \in {"idle", "clear", "list"}
    PROVE  AdmOK(At(s), S) /\ \A b \in BOOLEAN : AdmOK([At(s) EXCEPT !.alone = b], S)
<1>1. <<>> \in Seq(Keys) /\ <<>> \in Seq(YAML) /\ DOMAIN <<>> = {}
  OBVIOUS
<1> QED BY <1>1 DEF At, AdmOK, Locals, Steps

\* A goroutine that starts to reconcile.
LEMMA SyncOK ==
    ASSUME NEW S, NEW e \in BOOLEAN
    PROVE  AdmOK([At("sync") EXCEPT !.enforce = e, !.files = Files], S)
<1>1. <<>> \in Seq(YAML) /\ DOMAIN <<>> = {}
  OBVIOUS
<1> QED BY <1>1, ConfigAssumption DEF At, AdmOK, Locals, Steps

\* The note that others have changed something.
LEMMA NotAloneOK ==
    ASSUME NEW S, NEW r, AdmOK(r, S)
    PROVE  AdmOK([r EXCEPT !.alone = FALSE], S)
  BY DEF AdmOK, Locals

\* An operation that has not begun.
LEMMA OpIdleOK ==
    ASSUME NEW S
    PROVE  OpOK(OpAt("idle"), S)
  BY ConfigAssumption DEF OpOK, OpAt, OpLocals, Risks

\* The list loses its head.
LEMMA NextDocumentOK ==
    ASSUME NEW S, NEW a \in Admins, AdmOK(adm[a], S), adm[a].todo # <<>>
    PROVE  AdmOK(NextDocument(a), S)
<1> DEFINE q == adm[a].todo
           rest == Tail(q)
<1>1. q \in Seq(YAML) /\ q # <<>>
  BY DEF AdmOK, Locals
<1>2. /\ rest \in Seq(YAML) /\ DOMAIN rest = 1..Len(rest)
      /\ \A i \in DOMAIN rest : i + 1 \in DOMAIN q /\ rest[i] = q[i + 1]
  BY <1>1
<1>3. \A i \in DOMAIN rest : PartOf(rest[i], S)
  BY <1>2 DEF AdmOK
<1>4. CASE rest = <<>>
  BY <1>4, AtOK DEF NextDocument
<1>5. CASE rest # <<>>
  BY <1>2, <1>3, <1>5 DEF NextDocument, AdmOK, Locals, Steps
<1> QED BY <1>4, <1>5

\* The list of files loses its head.
LEMMA NextFileOK ==
    ASSUME NEW S, NEW a \in Admins, AdmOK(adm[a], S), adm[a].step \in {"sync", "import"}
    PROVE  AdmOK(NextFile(a), S)
<1>1. adm[a].files \in Seq(Keys) /\ adm[a].files # <<>>
  BY DEF AdmOK, Locals
<1>2. Tail(adm[a].files) \in Seq(Keys)
  BY <1>1
<1>3. CASE Tail(adm[a].files) = <<>>
  BY <1>3, AtOK DEF NextFile
<1>4. CASE Tail(adm[a].files) # <<>>
  BY <1>2, <1>4 DEF NextFile, AdmOK, Locals, Steps
<1> QED BY <1>3, <1>4

\* What is listed are documents of active rows, and no group without templates.
LEMMA ListingOK ==
    ASSUME TableInv
    PROVE  Listing \in Seq(YAML) /\ \A i \in DOMAIN Listing : PartOf(Listing[i], seen)
<1> DEFINE K == {k \in Keys : Applies(k)}
           keys == Recent("policies") \o Recent("templates")
<1>1. Reverse(age) \in Seq(Keys)
  BY DEF TableInv, Reverse
<1>2. ASSUME NEW kind PROVE Recent(kind) \in Seq(K)
  <2> DEFINE A == {k \in Keys : Applies(k) /\ KindOf(k) = kind}
  <2>1. OnlyIn(Reverse(age), A) \in Seq(Keys \cap A)
    BY <1>1, OnlyInType
  <2>2. Keys \cap A \subseteq K
    OBVIOUS
  <2>3. \A s \in Seq(Keys \cap A) : s \in Seq(K)
    BY <2>2
  <2> QED BY <2>1, <2>3 DEF Recent
<1>3. keys \in Seq(K)
  BY <1>2
<1>4. Listing = [i \in DOMAIN keys |-> configs[keys[i]].yaml]
  BY DEF Listing, Documents
<1> HIDE DEF keys
<1>5. ASSUME NEW k \in K PROVE configs[k].yaml \in YAML /\ PartOf(configs[k].yaml, seen)
  <2>1. /\ k \in Keys /\ Active(k) /\ configs[k] \in Rows /\ configs[k].yaml \in seen
        /\ configs[k].yaml.kind = KindOf(k) /\ (k \in Groups => configs[k].yaml.templates # <<>>)
    BY <1>5 DEF TableInv, Applies, Active
  <2>2. configs[k].yaml \in YAML
    BY <2>1 DEF Rows
  <2>3. CASE k \in Policies
    BY <2>1, <2>2, <2>3 DEF PartOf, KindOf
  <2>4. CASE k \in Groups /\ k \notin Policies
    BY <2>1, <2>2, <2>4 DEF PartOf, KindOf
  <2> QED BY <2>1, <2>2, <2>3, <2>4 DEF Keys
<1>6. DOMAIN keys = 1..Len(keys) /\ Len(keys) \in Nat /\ \A i \in DOMAIN keys : keys[i] \in K
  BY <1>3
<1>7. DOMAIN Listing = 1..Len(keys) /\ \A i \in DOMAIN Listing : Listing[i] = configs[keys[i]].yaml
  BY <1>4, <1>6
<1>8. Listing \in [1..Len(keys) -> YAML]
  BY <1>4, <1>5, <1>6
<1>9. Listing \in Seq(YAML)
  BY <1>6, <1>8
<1> QED BY <1>5, <1>6, <1>7, <1>9

-----------------------------------------------------------------------------
(* The invariant holds initially and every step preserves it.              *)

\* The table is empty, the engine denies everything.
LEMMA InitConfigInv == Init => ConfigInv
<1> SUFFICES ASSUME Init PROVE ConfigInv
  OBVIOUS
<1>1. TableInv
  BY DEF Init, TableInv, Active
<1>2. EngineInv
  BY DEF Init, EngineInv, NoModules
<1>3. AdmInv
  BY AtOK, SyncOK DEF Init, AdmInv, Booting
<1>4. OpInv
  BY OpIdleOK DEF Init, OpInv
<1> QED BY <1>1, <1>2, <1>3, <1>4 DEF ConfigInv

\* The locals of one goroutine change, in view of the others or not.
LEMMA GoOK ==
    ASSUME AdmInv, NEW a \in Admins, NEW r, Go(a, r) \/ Change(a, r), seen \subseteq seen', AdmOK(r, seen')
    PROVE  AdmInv'
<1>1. /\ adm' = [x \in Admins |-> adm'[x]]
      /\ \A x \in Admins : adm'[x] = r \/ adm'[x] = adm[x] \/ adm'[x] = [adm[x] EXCEPT !.alone = FALSE]
  BY DEF AdmInv, Go, Change
<1>2. ASSUME NEW x \in Admins PROVE AdmOK(adm'[x], seen')
  <2>1. AdmOK(adm[x], seen')
    BY Monotone DEF AdmInv
  <2>2. AdmOK([adm[x] EXCEPT !.alone = FALSE], seen')
    BY <2>1, NotAloneOK
  <2> QED BY <1>1, <2>1, <2>2
<1> QED BY <1>1, <1>2 DEF AdmInv

\* What the operations and the engine rely on stays in the history.
LEMMA UntouchedOK ==
    ASSUME seen \subseteq seen'
    PROVE  /\ EngineInv /\ UNCHANGED <<modules, engine>> => EngineInv'
           /\ OpInv /\ UNCHANGED op => OpInv'
  BY Monotone DEF EngineInv, OpInv, engine

\* SaveManagedConfig.
LEMMA UpsertOK ==
    ASSUME TableInv, NEW k \in Keys, NEW y \in YAML, y.kind = KindOf(k), NEW act \in BOOLEAN, Upsert(k, y, act)
    PROVE  TableInv' /\ seen \subseteq seen'
<1> DEFINE row == [active |-> act, yaml |-> y]
<1>1. row \in Rows /\ row # NoRow
  BY ConfigAssumption DEF Rows
<1>2. configs' = [configs EXCEPT ![k] = row] /\ seen' = IF act THEN seen \cup {y} ELSE seen
  BY DEF Upsert
<1>3. configs' \in [Keys -> Rows \cup {NoRow}] /\ seen \subseteq seen' /\ seen' \in SUBSET YAML
  BY <1>1, <1>2 DEF TableInv
<1>4. age' \in Seq(Keys)
  <2>1. OnlyIn(age, Keys \ {k}) \in Seq(Keys \cap (Keys \ {k}))
    BY OnlyInType DEF TableInv
  <2>2. Keys \cap (Keys \ {k}) \subseteq Keys
    OBVIOUS
  <2>3. OnlyIn(age, Keys \ {k}) \in Seq(Keys)
    BY <2>1, <2>2
  <2> QED BY <2>3 DEF Upsert
<1>5. ASSUME NEW j \in Keys, configs'[j] # NoRow PROVE configs'[j].yaml.kind = KindOf(j)
  BY <1>2, <1>5 DEF TableInv
<1>6. ASSUME NEW j \in Keys, Active(j)' PROVE configs'[j].yaml \in seen'
  <2>1. configs'[j] # NoRow /\ configs'[j].active
    BY <1>6 DEF Active
  <2>2. CASE j = k
    <3>1. configs'[j] = row
      BY <1>2, <2>2 DEF TableInv
    <3> QED BY <1>2, <2>1, <3>1
  <2>3. CASE j # k
    BY <1>2, <1>3, <2>1, <2>3 DEF TableInv, Active
  <2> QED BY <2>2, <2>3
<1> QED BY <1>3, <1>4, <1>5, <1>6 DEF TableInv

\* The steps of a request up to its reload.
LEMMA RequestPreserves ==
    ASSUME ConfigInv, NEW a \in Admins,
           \/ \E k \in Keys, y \in Contents, act \in BOOLEAN : Save(a, k, y, act)
           \/ \E k \in Keys : Delete(a, k)
           \/ \E e \in BOOLEAN : Sync(a, e)
           \/ SyncGet(a) \/ SyncSave(a) \/ SyncFails(a)
    PROVE  ConfigInv'
<1>0. TableInv /\ EngineInv /\ AdmInv /\ OpInv /\ AdmOK(adm[a], seen)
  BY DEF ConfigInv, AdmInv
<1>1. ASSUME NEW k \in Keys, NEW y \in Contents, NEW act \in BOOLEAN, Save(a, k, y, act)
      PROVE  ConfigInv'
  <2>1. TableInv' /\ seen \subseteq seen'
    BY <1>0, <1>1, UpsertOK, ConfigAssumption DEF Save
  <2>2. AdmInv'
    BY <1>0, <1>1, <2>1, GoOK, AtOK DEF Save
  <2> QED BY <1>0, <1>1, <2>1, <2>2, UntouchedOK DEF Save, ConfigInv
<1>2. ASSUME NEW k \in Keys, Delete(a, k) PROVE ConfigInv'
  <2>0. seen' = seen /\ configs' = [configs EXCEPT ![k] = NoRow] /\ age' = OnlyIn(age, Keys \ {k})
    BY <1>2 DEF Delete
  <2>1. age' \in Seq(Keys)
    <3>1. OnlyIn(age, Keys \ {k}) \in Seq(Keys \cap (Keys \ {k}))
      BY <1>0, OnlyInType DEF TableInv
    <3>2. Keys \cap (Keys \ {k}) \subseteq Keys
      OBVIOUS
    <3> QED BY <2>0, <3>1, <3>2
  <2>2. TableInv'
    BY <1>0, <2>0, <2>1 DEF TableInv, Active
  <2>3. AdmInv'
    BY <1>0, <1>2, <2>0, GoOK, AtOK DEF Delete
  <2> QED BY <1>0, <1>2, <2>0, <2>2, <2>3, UntouchedOK DEF Delete, ConfigInv
<1>3. ASSUME NEW e \in BOOLEAN, Sync(a, e) PROVE ConfigInv'
  <2>1. seen' = seen /\ TableInv'
    BY <1>0, <1>3 DEF Sync, table, TableInv, Active
  <2>2. AdmInv'
    BY <1>0, <1>3, <2>1, GoOK, SyncOK DEF Sync
  <2> QED BY <1>0, <1>3, <2>1, <2>2, UntouchedOK DEF Sync, ConfigInv
<1>4. CASE SyncGet(a)
  <2>1. seen' = seen /\ TableInv' /\ adm[a].step = "sync"
    BY <1>0, <1>4 DEF SyncGet, table, TableInv, Active
  <2>2. AdmOK([adm[a] EXCEPT !.step = "import"], seen)
    BY <1>0, <2>1 DEF AdmOK, Locals, Steps
  <2>3. AdmOK(NextFile(a), seen)
    BY <1>0, <2>1, NextFileOK
  <2>4. Go(a, [adm[a] EXCEPT !.step = "import"]) \/ Go(a, NextFile(a))
    BY <1>4 DEF SyncGet
  <2>5. AdmInv'
    BY <1>0, <2>1, <2>2, <2>3, <2>4, GoOK
  <2> QED BY <1>0, <1>4, <2>1, <2>5, UntouchedOK DEF SyncGet, ConfigInv
<1>5. CASE SyncSave(a)
  <2> DEFINE k == Head(adm[a].files)
  <2>1. k \in Keys /\ adm[a].step = "import"
    <3>1. adm[a].files \in Seq(Keys) /\ adm[a].files # <<>> /\ adm[a].step = "import"
      BY <1>0, <1>5 DEF SyncSave, AdmOK, Locals
    <3> QED BY <3>1
  <2>2. Source[k] \in YAML /\ Source[k].kind = KindOf(k)
    BY <2>1, ConfigAssumption
  <2>3. TableInv' /\ seen \subseteq seen'
    BY <1>0, <1>5, <2>1, <2>2, UpsertOK DEF SyncSave
  <2>4. AdmOK(NextFile(a), seen')
    BY <1>0, <2>1, <2>3, NextFileOK, Monotone
  <2>5. AdmInv'
    BY <1>0, <1>5, <2>3, <2>4, GoOK DEF SyncSave
  <2> QED BY <1>0, <1>5, <2>3, <2>5, UntouchedOK DEF SyncSave, ConfigInv
<1>6. CASE SyncFails(a)
  <2>1. seen' = seen /\ TableInv'
    BY <1>0, <1>6 DEF SyncFails, table, TableInv, Active
  <2>2. Go(a, At("clear")) \/ Go(a, At("idle"))
    BY <1>6 DEF SyncFails
  <2>3. AdmInv'
    BY <1>0, <2>1, <2>2, GoOK, AtOK
  <2> QED BY <1>0, <1>6, <2>1, <2>3, UntouchedOK DEF SyncFails, ConfigInv
<1> QED BY <1>1, <1>2, <1>3, <1>4, <1>5, <1>6

\* The steps of a reload.
LEMMA ReloadPreserves ==
    ASSUME ConfigInv, NEW a \in Admins,
           \/ ClearTemplateModules(a) \/ ListManagedConfigs(a)
           \/ ConfigureAllowed(a) \/ ConfigureReset(a) \/ ConfigureFill(a) \/ Register(a)
    PROVE  ConfigInv'
<1> DEFINE r == adm[a]
           q == r.todo
           d == q[1]
<1>0. TableInv /\ EngineInv /\ AdmInv /\ OpInv /\ AdmOK(r, seen)
  BY DEF ConfigInv, AdmInv
<1>1. UNCHANGED <<table, op>>
  BY DEF ClearTemplateModules, ListManagedConfigs, ConfigureAllowed, ConfigureReset, ConfigureFill, Register
<1>2. TableInv' /\ OpInv' /\ seen' = seen
  BY <1>0, <1>1, UntouchedOK DEF table, TableInv, Active
<1>3. r.step \in {"apply", "reset", "fill"} =>
        /\ q \in Seq(YAML) /\ q # <<>> /\ Head(q) = d /\ 1 \in DOMAIN q /\ d \in YAML /\ PartOf(d, seen)
  <2> SUFFICES ASSUME r.step \in {"apply", "reset", "fill"}
               PROVE  /\ q \in Seq(YAML) /\ q # <<>> /\ Head(q) = d /\ 1 \in DOMAIN q /\ d \in YAML /\ PartOf(d, seen)
    OBVIOUS
  <2>1. q \in Seq(YAML) /\ q # <<>>
    BY <1>0 DEF AdmOK, Locals
  <2>2. Head(q) = d /\ 1 \in DOMAIN q /\ d \in YAML
    BY <2>1
  <2> QED BY <1>0, <2>1, <2>2 DEF AdmOK
<1>4. CASE ClearTemplateModules(a)
  <2>1. EngineInv'
    BY <1>0, <1>2, <1>4 DEF ClearTemplateModules, EngineInv, NoModules, engine
  <2>2. AdmInv'
    BY <1>0, <1>2, <1>4, GoOK, AtOK DEF ClearTemplateModules
  <2> QED BY <1>2, <2>1, <2>2 DEF ConfigInv
<1>5. CASE ListManagedConfigs(a)
  <2>1. EngineInv'
    BY <1>0, <1>2, <1>5, UntouchedOK DEF ListManagedConfigs
  <2>2. Listing # <<>> => AdmOK([r EXCEPT !.todo = Listing, !.step = "apply"], seen)
    BY <1>0, ListingOK DEF AdmOK, Locals, Steps
  <2>3. \/ Go(a, At("idle"))
        \/ Listing # <<>> /\ Go(a, [r EXCEPT !.todo = Listing, !.step = "apply"])
    BY <1>5 DEF ListManagedConfigs
  <2>4. AdmInv'
    BY <1>0, <1>2, <2>2, <2>3, GoOK, AtOK
  <2> QED BY <1>2, <2>1, <2>4 DEF ConfigInv
<1>6. CASE ConfigureAllowed(a)
  <2>1. r.step = "apply" /\ d.kind = "policies" /\ allowed' = d.allowed /\ UNCHANGED <<modules, levels>>
    BY <1>3, <1>6 DEF ConfigureAllowed
  <2>2. d \in PolicyYAML /\ \A c \in d.allowed : AllowedIn(seen, c)
    BY <1>3, <2>1 DEF YAML, GroupYAML, PartOf, AllowedIn
  <2>3. EngineInv'
    BY <1>0, <1>2, <2>1, <2>2 DEF EngineInv, PolicyYAML
  <2>4. AdmOK([r EXCEPT !.step = "reset"], seen)
    BY <1>0, <2>1 DEF AdmOK, Locals, Steps
  <2>5. AdmInv'
    BY <1>0, <1>2, <1>6, <2>4, GoOK DEF ConfigureAllowed
  <2> QED BY <1>2, <2>3, <2>5 DEF ConfigInv
<1>7. CASE ConfigureReset(a)
  <2>1. r.step = "reset" /\ levels' = {} /\ UNCHANGED <<modules, allowed>>
    BY <1>7 DEF ConfigureReset
  <2>2. EngineInv'
    BY <1>0, <1>2, <2>1 DEF EngineInv
  <2>3. AdmOK(NextDocument(a), seen)
    BY <1>0, <1>3, <2>1, NextDocumentOK
  <2>4. Head(q).levels # <<>> => AdmOK([r EXCEPT !.step = "fill"], seen)
    BY <1>0, <1>3, <2>1 DEF AdmOK, Locals, Steps
  <2>5. \/ Change(a, NextDocument(a))
        \/ Head(q).levels # <<>> /\ Change(a, [r EXCEPT !.step = "fill"])
    BY <1>7 DEF ConfigureReset
  <2>6. AdmInv'
    BY <1>0, <1>2, <2>3, <2>4, <2>5, GoOK
  <2> QED BY <1>2, <2>2, <2>6 DEF ConfigInv
<1>8. CASE ConfigureFill(a)
  <2> DEFINE ls == d.levels
             e == [d EXCEPT !.levels = Tail(ls)]
             n == [q EXCEPT ![1] = e]
  <2>1. /\ r.step = "fill" /\ levels' = levels \cup {Head(ls)} /\ UNCHANGED <<modules, allowed>>
        /\ d.kind = "policies" /\ ls # <<>>
    BY <1>0, <1>3, <1>8 DEF ConfigureFill, AdmOK
  <2>2. d \in PolicyYAML /\ ls \in Seq(Risks)
    BY <1>3, <2>1 DEF YAML, GroupYAML, PolicyYAML
  <2>3. Head(ls) \in Risks /\ Tail(ls) \in Seq(Risks)
    BY <2>1, <2>2
  <2>4. EngineInv'
    BY <1>0, <1>2, <2>1, <2>3 DEF EngineInv
  <2>5. AdmOK(NextDocument(a), seen)
    BY <1>0, <1>3, <2>1, NextDocumentOK
  <2>6. e \in PolicyYAML /\ e \in YAML /\ PartOf(e, seen) /\ e.levels = Tail(ls) /\ e.kind = "policies"
    BY <1>3, <2>1, <2>2, <2>3 DEF YAML, PolicyYAML, PartOf
  <2>7. /\ n \in Seq(YAML) /\ n # <<>> /\ DOMAIN n = DOMAIN q /\ n[1] = e
        /\ \A i \in DOMAIN n : i # 1 => n[i] = q[i]
    <3> HIDE DEF e
    <3>1. q \in Seq(YAML) /\ 1 \in 1..Len(q) /\ e \in YAML
      BY <1>3, <2>1, <2>6
    <3> QED BY <3>1
  <2>8. ASSUME Tail(ls) # <<>> PROVE AdmOK([r EXCEPT !.todo = n], seen)
    <3> HIDE DEF n, e
    <3>1. [r EXCEPT !.todo = n] \in Locals
      BY <1>0, <2>7 DEF AdmOK, Locals
    <3>2. \A i \in DOMAIN n : PartOf(n[i], seen)
      BY <1>0, <2>6, <2>7 DEF AdmOK
    <3> QED BY <1>0, <2>1, <2>6, <2>7, <2>8, <3>1, <3>2 DEF AdmOK, Locals
  <2>9. \/ Change(a, NextDocument(a))
        \/ Tail(ls) # <<>> /\ Change(a, [r EXCEPT !.todo = n])
    BY <1>3, <1>8, <2>1 DEF ConfigureFill
  <2>10. AdmInv'
    BY <1>0, <1>2, <2>5, <2>8, <2>9, GoOK
  <2> QED BY <1>2, <2>4, <2>10 DEF ConfigInv
<1>9. CASE Register(a)
  <2> DEFINE ts == d.templates
             t == Head(ts)
             e == [d EXCEPT !.templates = Tail(ts)]
             n == [q EXCEPT ![1] = e]
  <2>1. /\ r.step = "apply" /\ modules' = [modules EXCEPT ![t.code] = t.risk] /\ UNCHANGED <<allowed, levels>>
        /\ d.kind = "templates" /\ ts # <<>>
    BY <1>3, <1>9 DEF Register, RegisterModule, engine, PartOf
  <2>2. d \in GroupYAML /\ ts \in Seq(Templates)
    BY <1>3, <2>1 DEF YAML, GroupYAML, PolicyYAML
  <2>3. /\ t \in Templates /\ Tail(ts) \in Seq(Templates) /\ t \in ToSet(ts) /\ ToSet(Tail(ts)) \subseteq ToSet(ts)
    <3>1. t \in Templates /\ Tail(ts) \in Seq(Templates) /\ t = ts[1] /\ 1 \in DOMAIN ts
      BY <2>1, <2>2
    <3>2. \A i \in DOMAIN Tail(ts) : i + 1 \in DOMAIN ts /\ Tail(ts)[i] = ts[i + 1]
      BY <2>1, <2>2
    <3> QED BY <3>1, <3>2 DEF ToSet
  <2>4. GivenIn(seen, t.code, t.risk)
    BY <1>3, <2>1, <2>3 DEF PartOf, GivenIn
  <2>5. EngineInv'
    <3>1. t.code \in Codes /\ t.risk \in Risks
      BY <2>3 DEF Templates
    <3>2. modules' \in [Codes -> Risks \cup {"none"}]
      BY <1>0, <2>1, <3>1 DEF EngineInv
    <3>3. \A c \in Codes : modules'[c] # "none" => GivenIn(seen, c, modules'[c])
      BY <1>0, <2>1, <2>4, <3>1 DEF EngineInv
    <3> QED BY <1>0, <1>2, <2>1, <3>2, <3>3 DEF EngineInv
  <2>6. AdmOK(NextDocument(a), seen)
    BY <1>0, <1>3, <2>1, NextDocumentOK
  <2>7. ASSUME Tail(ts) # <<>> PROVE e \in YAML /\ PartOf(e, seen) /\ e.kind = "templates"
    BY <1>3, <2>1, <2>2, <2>3, <2>7 DEF YAML, GroupYAML, PartOf
  <2>8. ASSUME Tail(ts) # <<>> PROVE AdmOK([r EXCEPT !.todo = n], seen)
    <3>0. e \in YAML /\ PartOf(e, seen) /\ e.kind = "templates"
      BY <2>7, <2>8
    <3>1. /\ n \in Seq(YAML) /\ n # <<>> /\ DOMAIN n = DOMAIN q /\ n[1] = e
          /\ \A i \in DOMAIN n : i # 1 => n[i] = q[i]
      <4> HIDE DEF e
      <4>1. q \in Seq(YAML) /\ 1 \in 1..Len(q) /\ e \in YAML
        BY <1>3, <2>1, <3>0
      <4> QED BY <4>1
    <3> HIDE DEF n, e
    <3>2. [r EXCEPT !.todo = n] \in Locals
      BY <1>0, <3>1 DEF AdmOK, Locals
    <3>3. \A i \in DOMAIN n : PartOf(n[i], seen)
      BY <1>0, <3>0, <3>1 DEF AdmOK
    <3> QED BY <1>0, <2>1, <3>1, <3>2, <3>3 DEF AdmOK, Locals
  <2>9. \/ Change(a, NextDocument(a))
        \/ Tail(ts) # <<>> /\ Change(a, [r EXCEPT !.todo = n])
    BY <1>3, <1>9, <2>1 DEF Register
  <2>10. AdmInv'
    BY <1>0, <1>2, <2>6, <2>8, <2>9, GoOK
  <2> QED BY <1>2, <2>5, <2>10 DEF ConfigInv
<1> QED BY <1>4, <1>5, <1>6, <1>7, <1>8, <1>9

\* The steps of an operation.
LEMMA OperationPreserves ==
    ASSUME ConfigInv, NEW o \in Ops,
           \/ \E c \in Codes : GetModule(o, c)
           \/ ValidateTemplate(o) \/ RefuseParameters(o) \/ RequiresManualApproval(o)
    PROVE  ConfigInv'
<1>0. TableInv /\ EngineInv /\ AdmInv /\ OpInv /\ OpOK(op[o], seen)
  BY DEF ConfigInv, OpInv
<1>1. UNCHANGED <<table, modules, engine, adm>>
  BY DEF GetModule, ValidateTemplate, RefuseParameters, RequiresManualApproval
<1>2. TableInv' /\ EngineInv' /\ AdmInv' /\ seen' = seen
  BY <1>0, <1>1 DEF table, engine, TableInv, EngineInv, AdmInv, Active
<1>3. ASSUME NEW r, OpOK(r, seen), op' = [op EXCEPT ![o] = r] PROVE ConfigInv'
  BY <1>0, <1>2, <1>3 DEF OpInv, ConfigInv
<1>4. ASSUME NEW c \in Codes, GetModule(o, c) PROVE ConfigInv'
  <2> DEFINE r == [OpAt("validate") EXCEPT !.code = c, !.risk = modules[c], !.boot = adm[Boot].step # "idle"]
  <2>1. modules[c] \in Risks /\ GivenIn(seen, c, modules[c]) /\ op' = [op EXCEPT ![o] = r]
    BY <1>0, <1>4 DEF GetModule, EngineInv
  <2>2. OpOK(r, seen)
    BY <2>1 DEF OpOK, OpLocals, OpAt
  <2> QED BY <1>3, <2>1, <2>2
<1>5. CASE ValidateTemplate(o)
  <2>1. op[o].code \in allowed => OpOK([op[o] EXCEPT !.step = "decide"], seen)
    BY <1>0, <1>5 DEF ValidateTemplate, OpOK, OpLocals, EngineInv
  <2>2. \/ op[o].code \in allowed /\ op' = [op EXCEPT ![o] = [op[o] EXCEPT !.step = "decide"]]
        \/ op' = [op EXCEPT ![o] = OpAt("idle")]
    BY <1>5 DEF ValidateTemplate
  <2> QED BY <1>3, <2>1, <2>2, OpIdleOK
<1>6. CASE RefuseParameters(o)
  BY <1>3, <1>6, OpIdleOK DEF RefuseParameters
<1>7. CASE RequiresManualApproval(o)
  <2> DEFINE q == MergeRisk(op[o].risk)
             b == op[o].boot /\ adm[Boot].step # "idle"
             p == q \in levels
             r == [op[o] EXCEPT !.step = "decided", !.risk = q, !.approval = p, !.boot = b]
  <2>1. op[o].step = "decide" /\ op' = [op EXCEPT ![o] = r]
    BY <1>7 DEF RequiresManualApproval
  <2>2. OpOK(r, seen)
    <3>1. op[o].risk \in Risks /\ q \in Risks
      BY <1>0 DEF OpOK, OpLocals, MergeRisk, Risks
    <3>2. r \in OpLocals
      <4>1. p \in BOOLEAN /\ b \in BOOLEAN /\ op[o] \in OpLocals
        BY <1>0 DEF OpOK
      <4> HIDE DEF p, b, q
      <4> QED BY <3>1, <4>1 DEF OpLocals
    <3>3. /\ r.step = "decided" /\ r.code = op[o].code /\ r.risk = q
          /\ GivenIn(seen, op[o].code, op[o].risk) /\ AllowedIn(seen, op[o].code)
      BY <1>0, <2>1 DEF OpOK, OpLocals
    <3> HIDE DEF r
    <3> QED BY <3>1, <3>2, <3>3 DEF OpOK
  <2> HIDE DEF r
  <2> QED BY <1>3, <2>1, <2>2
<1> QED BY <1>4, <1>5, <1>6, <1>7

\* The process starts again.
LEMMA RestartPreserves ==
    ASSUME ConfigInv, Restart
    PROVE  ConfigInv'
<1>1. TableInv' /\ seen' = seen
  BY DEF ConfigInv, Restart, table, TableInv, Active
<1>2. EngineInv'
  BY DEF Restart, EngineInv, NoModules
<1>3. AdmInv'
  BY AtOK, SyncOK DEF Restart, AdmInv, Booting
<1>4. OpInv'
  BY OpIdleOK DEF Restart, OpInv
<1> QED BY <1>1, <1>2, <1>3, <1>4 DEF ConfigInv

\* The invariant is inductive.
THEOREM ConfigInvariance == Spec => []ConfigInv
<1>1. ConfigInv /\ [Next]_vars => ConfigInv'
  <2> SUFFICES ASSUME ConfigInv, [Next]_vars PROVE ConfigInv'
    OBVIOUS
  <2>1. CASE UNCHANGED vars
    BY <2>1 DEF vars, ConfigInv, TableInv, EngineInv, AdmInv, OpInv, Active
  <2>2. CASE Next
    BY <2>2, RequestPreserves, ReloadPreserves, OperationPreserves, RestartPreserves DEF Next
  <2> QED BY <2>1, <2>2
<1> QED BY <1>1, InitConfigInv, PTL DEF Spec

\* The table, the engines and the goroutines keep their types.
THEOREM ConfigTypeCorrect == Spec => []TypeOK
<1>1. ConfigInv => TypeOK
  BY DEF ConfigInv, TableInv, EngineInv, AdmInv, OpInv, AdmOK, OpOK, Locals, OpLocals, TypeOK
<1> QED BY <1>1, ConfigInvariance, PTL

\* Whatever reloads, restarts and operations do to each other, an operation is
\* decided only for a template that an active policy has allowed, at a risk that
\* an active template group has given it.
THEOREM DecisionsGroundedHolds == Spec => []DecisionsGrounded
<1>1. ConfigInv => DecisionsGrounded
  BY DEF ConfigInv, OpInv, OpOK, AllowedIn, GivenIn, DecisionsGrounded
<1> QED BY <1>1, ConfigInvariance, PTL
=============================================================================
