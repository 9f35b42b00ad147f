---------------------------- MODULE ManagedConfig ----------------------------
(***************************************************************************)
(* The managed runtime configuration: policies and template groups as rows *)
(* of managed_configs, the module registry and the policy engine that are  *)
(* filled from them, and the agent's module operations that read both.     *)
(*                                                                         *)
(* A request changes the table with one statement, or reconciles it with   *)
(* the YAML files of the source directory, and then reloads: it empties    *)
(* the registry, reads all rows and applies the active ones in turn.       *)
(* Nothing keeps two reloads apart, or a reload and an operation.  The     *)
(* registry locks each access; the policy engine has no lock, and one      *)
(* assignment of Configure is one step here.                               *)
(***************************************************************************)
EXTENDS Naturals, Sequences, SequencesExt, Selection

CONSTANTS
    Admins,     \* goroutines that change the configuration
    Boot,       \* the one among them that runs NewServer
    Ops,        \* module operations of the agent
    Policies,   \* IDs of policies
    Groups,     \* IDs of template groups
    Codes,      \* template codes
    Contents,   \* YAML documents that users save
    Files,      \* the source directory: IDs in the order of the walk
    Source,     \* Source[k]: the document in the file of k
    NoRow,
    Faults      \* whether statements fail and the server dies

Keys == Policies \cup Groups
Risks == {"low", "medium", "high", "other"}
Templates == [code : Codes, risk : Risks]
PolicyYAML == [kind : {"policies"}, allowed : SUBSET Codes, levels : Seq(Risks)]
GroupYAML == [kind : {"templates"}, templates : Seq(Templates)]
YAML == PolicyYAML \cup GroupYAML
Rows == [active : BOOLEAN, yaml : YAML]

KindOf(k) == IF k \in Policies THEN "policies" ELSE "templates"

ASSUME ConfigAssumption ==
    /\ Boot \in Admins
    /\ Codes # {}
    /\ Policies \cap Groups = {}
    /\ NoRow \notin Rows
    /\ Contents \subseteq YAML
    /\ Files \in Seq(Keys) /\ Files # <<>>
    /\ Source \in [Keys -> YAML] /\ \A k \in Keys : Source[k].kind = KindOf(k)
    /\ Faults \in BOOLEAN

VARIABLES
    configs,    \* managed_configs
    age,        \* the keys in the table, least recently saved first (updated_at)
    modules,    \* the module registry: risk level by code
    allowed,    \* policy engine: allowedTemplates
    levels,     \* policy engine: approvalRiskLevels
    adm,        \* the goroutines: next step and locals
    op,         \* the operations: next step and locals
    seen        \* history: documents that have been active in the table

vars == <<configs, age, modules, allowed, levels, adm, op, seen>>
table == <<configs, age, seen>>
engine == <<allowed, levels>>

Steps == {"idle", "sync", "import", "clear", "list", "apply", "reset", "fill"}
At(s) == [step |-> s, enforce |-> FALSE, files |-> <<>>, todo |-> <<>>, alone |-> FALSE]
OpAt(s) == [step |-> s, code |-> CHOOSE c \in Codes : TRUE, risk |-> "low",
            approval |-> FALSE, boot |-> FALSE]
NoModules == [c \in Codes |-> "none"]

Active(k) == configs[k] # NoRow /\ configs[k].active

\* NewServer: nothing is registered, everything is denied, and the source
\* directory is reconciled before the listener starts.
Booting(e) == [a \in Admins |->
    IF a = Boot THEN [At("sync") EXCEPT !.enforce = e, !.files = Files] ELSE At("idle")]

Init ==
    /\ configs = [k \in Keys |-> NoRow]
    /\ age = <<>>
    /\ modules = NoModules
    /\ allowed = {} /\ levels = {}
    /\ \E e \in BOOLEAN : adm = Booting(e)
    /\ op = [o \in Ops |-> OpAt("idle")]
    /\ seen = {}

\* Goroutine a goes on at r; in the second case it changes what others see.
Go(a, r) == adm' = [adm EXCEPT ![a] = r]
Change(a, r) == adm' = [x \in Admins |-> IF x = a THEN r ELSE [adm[x] EXCEPT !.alone = FALSE]]

-----------------------------------------------------------------------------
(* The table.                                                              *)

\* SaveManagedConfig: insert or overwrite, and move to the recent end.  (Two
\* saves whose timestamps are taken in the order opposite to their statements
\* count in the order of the timestamps.)
Upsert(k, y, act) ==
    /\ configs' = [configs EXCEPT ![k] = [active |-> act, yaml |-> y]]
    /\ age' = Append(OnlyIn(age, Keys \ {k}), k)
    /\ seen' = IF act THEN seen \cup {y} ELSE seen

Serves(a) == a # Boot /\ adm[Boot].step = "idle" /\ adm[a].step = "idle"

\* POST or PUT /configs/{kind}/{id}.  A document that does not parse, and a
\* statement that fails, change nothing.
Save(a, k, y, act) ==
    /\ Serves(a)
    /\ y.kind = KindOf(k)
    /\ Upsert(k, y, act)
    /\ Change(a, At("clear"))
    /\ UNCHANGED <<modules, engine, op>>

\* DELETE /configs/{kind}/{id}
Delete(a, k) ==
    /\ Serves(a)
    /\ configs[k] # NoRow
    /\ configs' = [configs EXCEPT ![k] = NoRow]
    /\ age' = OnlyIn(age, Keys \ {k})
    /\ Change(a, At("clear"))
    /\ UNCHANGED <<modules, engine, op, seen>>

\* POST /configs/sync
Sync(a, e) ==
    /\ Serves(a)
    /\ Go(a, [At("sync") EXCEPT !.enforce = e, !.files = Files])
    /\ UNCHANGED <<table, modules, engine, op>>

\* The goroutine has dealt with a file.
NextFile(a) ==
    LET rest == Tail(adm[a].files)
    IN  IF rest = <<>> THEN At("clear") ELSE [adm[a] EXCEPT !.files = rest, !.step = "sync"]

\* GetManagedConfig: the row, or none, of which a statement that fails is not
\* told apart.
GetManagedConfig(k) == {configs[k]} \cup (IF Faults THEN {NoRow} ELSE {})

\* syncManagedConfigs reads the row of a file, and imports the file if there is
\* none, or if it differs and the files are to be enforced.
SyncGet(a) ==
    LET k == Head(adm[a].files) IN
    /\ adm[a].step = "sync"
    /\ \E found \in GetManagedConfig(k) :
        LET imports == found = NoRow \/ (adm[a].enforce /\ found.yaml # Source[k])
        IN  Go(a, IF imports THEN [adm[a] EXCEPT !.step = "import"] ELSE NextFile(a))
    /\ UNCHANGED <<table, modules, engine, op>>

SyncSave(a) ==
    /\ adm[a].step = "import"
    /\ LET k == Head(adm[a].files) IN Upsert(k, Source[k], TRUE)
    /\ Change(a, NextFile(a))
    /\ UNCHANGED <<modules, engine, op>>

\* A file that cannot be read or parsed, or a failing statement, ends the
\* request; NewServer logs it and loads what there is.
SyncFails(a) ==
    /\ Faults
    /\ adm[a].step \in {"sync", "import"}
    /\ Go(a, At(IF a = Boot THEN "clear" ELSE "idle"))
    /\ UNCHANGED <<table, modules, engine, op>>

-----------------------------------------------------------------------------
(* reloadManagedConfigs.                                                   *)

\* The rows that a reload applies: active, and not a group without templates.
Applies(k) == Active(k) /\ (k \in Groups => configs[k].yaml.templates # <<>>)
Recent(kind) == OnlyIn(Reverse(age), {k \in Keys : Applies(k) /\ KindOf(k) = kind})
Documents(keys) == [i \in DOMAIN keys |-> configs[keys[i]].yaml]

\* Mutant: ORDER BY kind DESC.
MutListTemplatesFirst == Documents(Recent("templates") \o Recent("policies"))

\* ListManagedConfigs and the test for active rows: policies before templates,
\* and the most recently saved first.
Listing == Documents(Recent("policies") \o Recent("templates"))

\* Goroutine a has applied the head of its list.
NextDocument(a) ==
    LET rest == Tail(adm[a].todo)
    IN  IF rest = <<>> THEN At("idle") ELSE [adm[a] EXCEPT !.todo = rest, !.step = "apply"]

\* Mutant: the reload does not empty the registry.
MutNoClear(a) ==
    /\ adm[a].step = "clear"
    /\ Change(a, [At("list") EXCEPT !.alone = TRUE])
    /\ UNCHANGED <<table, modules, engine, op>>

\* Mutant: the registry is left without a map.
MutClearNil(a) ==
    /\ adm[a].step = "clear"
    /\ modules' = <<>>
    /\ Change(a, [At("list") EXCEPT !.alone = TRUE])
    /\ UNCHANGED <<table, engine, op>>

ClearTemplateModules(a) ==
    /\ adm[a].step = "clear"
    /\ modules' = NoModules
    /\ Change(a, [At("list") EXCEPT !.alone = TRUE])
    /\ UNCHANGED <<table, engine, op>>

ListManagedConfigs(a) ==
    /\ adm[a].step = "list"
    /\ \/ Go(a, IF Listing = <<>> THEN At("idle")
                ELSE [adm[a] EXCEPT !.todo = Listing, !.step = "apply"])
       \/ Faults /\ Go(a, At("idle"))
    /\ UNCHANGED <<table, modules, engine, op>>

\* Configure, first part: the set of templates.
ConfigureAllowed(a) ==
    /\ adm[a].step = "apply"
    /\ Head(adm[a].todo).kind = "policies"
    /\ allowed' = Head(adm[a].todo).allowed
    /\ Change(a, [adm[a] EXCEPT !.step = "reset"])
    /\ UNCHANGED <<table, modules, levels, op>>

\* Then a fresh map of levels, still empty.
ConfigureReset(a) ==
    /\ adm[a].step = "reset"
    /\ levels' = {}
    /\ Change(a, IF Head(adm[a].todo).levels = <<>> THEN NextDocument(a)
                 ELSE [adm[a] EXCEPT !.step = "fill"])
    /\ UNCHANGED <<table, modules, allowed, op>>

\* Then the levels one by one, into the map that is there.
ConfigureFill(a) ==
    LET ls == Head(adm[a].todo).levels
    IN  /\ adm[a].step = "fill"
        /\ levels' = levels \cup {Head(ls)}
        /\ Change(a, IF Tail(ls) = <<>> THEN NextDocument(a)
                     ELSE [adm[a] EXCEPT !.todo[1].levels = Tail(ls)])
        /\ UNCHANGED <<table, modules, allowed, op>>

\* Registry.Register
RegisterModule(t) == modules' = [modules EXCEPT ![t.code] = t.risk]

\* ... for each template of a group.
Register(a) ==
    LET ts == Head(adm[a].todo).templates
    IN  /\ adm[a].step = "apply"
        /\ Head(adm[a].todo).kind = "templates"
        /\ RegisterModule(Head(ts))
        /\ Change(a, IF Tail(ts) = <<>> THEN NextDocument(a)
                     ELSE [adm[a] EXCEPT !.todo[1].templates = Tail(ts)])
        /\ UNCHANGED <<table, engine, op>>

-----------------------------------------------------------------------------
(* createModuleOperation, up to its decision.  An operation may run while  *)
(* the server boots: the recovery of interrupted runs does not wait.       *)

\* MergeRisk of one level: what it does not know is low.
MergeRisk(r) == IF r \in {"medium", "high"} THEN r ELSE "low"

GetModule(o, c) ==
    /\ op[o].step \in {"idle", "decided"}
    /\ modules[c] # "none"
    /\ op' = [op EXCEPT ![o] = [OpAt("validate") EXCEPT !.code = c, !.risk = modules[c],
                                !.boot = adm[Boot].step # "idle"]]
    /\ UNCHANGED <<table, modules, engine, adm>>

\* Mutant: a module that is registered counts as allowed.
MutValidateRegistered(o) ==
    /\ op[o].step = "validate"
    /\ op' = [op EXCEPT ![o].step = IF modules[op[o].code] # "none" THEN "decide" ELSE "idle"]
    /\ UNCHANGED <<table, modules, engine, adm>>

ValidateTemplate(o) ==
    /\ op[o].step = "validate"
    /\ op' = [op EXCEPT ![o] = IF @.code \in allowed THEN [@ EXCEPT !.step = "decide"]
                               ELSE OpAt("idle")]
    /\ UNCHANGED <<table, modules, engine, adm>>

RequiresManualApproval(o) ==
    /\ op[o].step = "decide"
    /\ LET r == MergeRisk(op[o].risk)
       IN  op' = [op EXCEPT ![o] = [@ EXCEPT !.step = "decided", !.risk = r,
                                !.approval = r \in levels,
                                !.boot = op[o].boot /\ adm[Boot].step # "idle"]]
    /\ UNCHANGED <<table, modules, engine, adm>>

\* A parameter is missing, or the command cannot be rendered.
RefuseParameters(o) ==
    /\ op[o].step = "decide"
    /\ op' = [op EXCEPT ![o] = OpAt("idle")]
    /\ UNCHANGED <<table, modules, engine, adm>>

\* The process dies and is started again.  (The unsynchronised map of levels is
\* one reason: the Go runtime may stop a process that reads it during a write.)
Restart ==
    /\ Faults
    /\ modules' = NoModules
    /\ allowed' = {} /\ levels' = {}
    /\ \E e \in BOOLEAN : adm' = Booting(e)
    /\ op' = [o \in Ops |-> OpAt("idle")]
    /\ UNCHANGED table

-----------------------------------------------------------------------------

Next ==
    \/ \E a \in Admins :
        \/ \E k \in Keys, y \in Contents, act \in BOOLEAN : Save(a, k, y, act)
        \/ \E k \in Keys : Delete(a, k)
        \/ \E e \in BOOLEAN : Sync(a, e)
        \/ SyncGet(a)
        \/ SyncSave(a)
        \/ SyncFails(a)
        \/ ClearTemplateModules(a)
        \/ ListManagedConfigs(a)
        \/ ConfigureAllowed(a)
        \/ ConfigureReset(a)
        \/ ConfigureFill(a)
        \/ Register(a)
    \/ \E o \in Ops :
        \/ \E c \in Codes : GetModule(o, c)
        \/ ValidateTemplate(o)
        \/ RefuseParameters(o)
        \/ RequiresManualApproval(o)
    \/ Restart

Spec == Init /\ [][Next]_vars

-----------------------------------------------------------------------------
(* Properties.                                                             *)

\* The types of the table, the engines and the goroutines.
TypeOK ==
    /\ configs \in [Keys -> Rows \cup {NoRow}]
    /\ age \in Seq(Keys)
    /\ modules \in [Codes -> Risks \cup {"none"}]
    /\ allowed \in SUBSET Codes
    /\ levels \in SUBSET Risks
    /\ adm \in [Admins -> [step : Steps, enforce : BOOLEAN, files : Seq(Keys),
                          todo : Seq(YAML), alone : BOOLEAN]]
    /\ op \in [Ops -> [step : {"idle", "validate", "decide", "decided"}, code : Codes,
                      risk : Risks, approval : BOOLEAN, boot : BOOLEAN]]
    /\ seen \in SUBSET YAML

\* Whatever reloads and operations do to each other, createModuleOperation goes
\* through only for a template that an active policy has allowed, at a risk
\* level that an active template group has given it.  Inactive rows and drafts
\* authorize nothing.
DecisionsGrounded ==
    \A o \in Ops : op[o].step = "decided" =>
        /\ \E y \in seen : y.kind = "policies" /\ op[o].code \in y.allowed
        /\ \E y \in seen : /\ y.kind = "templates"
                          /\ \E t \in ToSet(y.templates) :
                                t.code = op[o].code /\ MergeRisk(t.risk) = op[o].risk

\* What a reload should produce: of several active documents that set the same
\* thing, the one saved longest ago is applied last and wins.
Wins(k, Rival(_)) ==
    /\ Active(k) /\ Rival(k)
    /\ \A i, n \in DOMAIN age :
        age[n] = k /\ Active(age[i]) /\ Rival(age[i]) => n <= i

IsPolicy(k) == k \in Policies
Defines(k, c) == k \in Groups /\ \E t \in ToSet(configs[k].yaml.templates) : t.code = c
LastFor(y, c) == SelectLastInSeq(y.templates, LAMBDA t : t.code = c)

EffectiveModules ==
    [c \in Codes |->
        IF \E k \in Keys : Active(k) /\ Defines(k, c)
        THEN LET y == configs[CHOOSE k \in Keys : Wins(k, LAMBDA x : Defines(x, c))].yaml
             IN  y.templates[LastFor(y, c)].risk
        ELSE "none"]

\* A reload that nobody interfered with leaves exactly the active templates in the
\* registry: deleted and deactivated ones are gone.  If a policy is active, the
\* engine holds that of one policy, never a mixture of two.  (Without one it keeps
\* what it had, which PolicyIsActive is about.)
ReloadExact ==
    [][\A a \in Admins :
        /\ adm[a].alone /\ adm[a].step \in {"apply", "reset", "fill"}
        /\ adm'[a].step = "idle" /\ adm'[Boot].step = "idle"
        => /\ modules' = EffectiveModules
           /\ \A k \in Keys : Wins(k, IsPolicy) =>
                /\ allowed' = configs[k].yaml.allowed
                /\ levels' = ToSet(configs[k].yaml.levels)]_vars

\* An operation of a recovered run that is decided before the server has loaded
\* its configuration is decided by the complete policy in force: NewServer starts
\* the recovery first, and it is the order of the rows that makes this hold.
BootDecides ==
    [][\A o \in Ops :
        op[o].step = "decide" /\ op'[o].step = "decided" /\ op'[o].boot
        => \E k \in Keys :
            /\ Wins(k, IsPolicy)
            /\ op[o].code \in configs[k].yaml.allowed
            /\ op'[o].approval = (op'[o].risk \in ToSet(configs[k].yaml.levels))]_vars

\* NewEngine: "Authorization is supplied exclusively by the active managed policy
\* configuration."  With no request under way the templates that are allowed are
\* those of an active policy, or there are none.
PolicyIsActive ==
    (\A a \in Admins : adm[a].step = "idle") =>
        \/ allowed = {}
        \/ \E k \in Policies : Active(k) /\ allowed = configs[k].yaml.allowed

=============================================================================
