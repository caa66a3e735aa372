----------------------------- MODULE InitialLoad -----------------------------
(***************************************************************************)
(* The initial load: runCli, validateLoad and writePlan, with the services *)
(* it writes through.  Every row is a transaction of its own; a load that  *)
(* stops, refused or killed, leaves what it wrote and is run again.        *)
(*                                                                         *)
(* A name or a natural key is a member of a small set; the key of an entry *)
(* stands for its description, account or card, and date.  A series or a   *)
(* group of installments is its first entry.  Loads run one at a time.     *)
(***************************************************************************)
EXTENDS Integers, FiniteSets

CONSTANTS
    Sheets,         \* the sheets a load may be given
    Names,          \* names and natural keys
    Initial,        \* the catalogues a load may find: [Record -> state]
    MaxDay,         \* days pass from 0 to MaxDay
    MaxEdits,       \* how many times the users change something
    MaxCrashes      \* how many times the load is killed

(* The tabs of the sheet by the order they are written in; fixed and       *)
(* installment expenses and open statements share one list of what exists. *)
Catalogue == {"bancos", "contas", "cartoes", "tipos_despesa"}
Sections  == <<{"bancos"}, {"contas"}, {"cartoes"}, {"tipos_despesa"},
               {"despesas_fixas", "despesas_parceladas", "faturas_em_aberto"},
               {"recebimentos"}>>
Section   == 1..6
Tab       == UNION {Sections[i] : i \in Section}
Expenses  == {"despesas_fixas", "despesas_parceladas"}

(* A catalogue record of the database; earning types are only there.       *)
Record == (Catalogue \cup {"tipos_receita"}) \X Names
State  == {"absent", "active", "archived"}
Day    == 0..MaxDay

(* A row: its line (lines grow in the order of writing), the name other    *)
(* rows know it by, its natural key, what it refers to by name, and what   *)
(* is wrong with its other fields.  complete: no file or column is missing.*)
Row   == [line : Nat, tab : Tab, import : {"sim", "nao", "?"}, name : Names, key : Names,
          refs : SUBSET Record, wrong : {"nothing", "field", "name"}]
IsSheet(s) ==
    /\ s.complete \in BOOLEAN /\ s.rows \subseteq Row /\ IsFiniteSet(s.rows)
    /\ \A x, y \in s.rows : x.line = y.line => x = y

ASSUME InitialLoadAssumption ==
    /\ \A s \in Sheets : IsSheet(s)
    /\ Initial \subseteq [Record -> State]
    /\ MaxDay \in Nat /\ MaxEdits \in Nat /\ MaxCrashes \in Nat

VARIABLES
    sheet,          \* the files
    master,         \* the catalogues
    entries,        \* how many expenses or earnings have a key and a date
    today,
    run,            \* the load in progress
    report,         \* how the last load ended
    promise,        \* what the last dry run announced
    edits, crashes,
    settled         \* did a load end, and has nobody changed anything since?

db   == <<master, entries>>
vars == <<sheet, db, today, run, report, promise, edits, crashes, settled>>

-----------------------------------------------------------------------------
(* validateLoad.                                                           *)

ToImport(s) == {x \in s.rows : x.import = "sim"}

(* Mutant of Referable: the ignored rows can be referred to. *)
ReferableIgnored(s) ==
    {<<x.tab, x.name>> : x \in {y \in s.rows : y.tab \in Catalogue /\ y.wrong # "name"}}

(* A row to import keeps its name referable although a field is wrong.     *)
Referable(s) ==
    {<<x.tab, x.name>> : x \in {y \in ToImport(s) : y.tab \in Catalogue /\ y.wrong # "name"}}

(* The type of an earning is not on the sheet: it is looked for later.     *)
OnSheet(ref) == ref[1] \in Catalogue

(* reference: a name must be that of a row to import of the other tab.     *)
Unresolved(s, x) == \E ref \in x.refs : OnSheet(ref) /\ ref \notin Referable(s)

(* target: an expense has an account or a card.                            *)
HasTarget(x) ==
    x.tab \in Expenses => Cardinality({r \in x.refs : r[1] \in {"contas", "cartoes"}}) = 1

IsWrong(s, x) == x.wrong # "nothing" \/ Unresolved(s, x) \/ ~HasTarget(x)

(* A name or a natural key of an earlier row of the tab.                   *)
IsRepeated(s, x) ==
    \E y \in ToImport(s) :
        /\ y.tab = x.tab /\ y.line < x.line /\ ~IsWrong(s, y)
        /\ y.key = x.key \/ (x.tab \in Catalogue /\ y.name = x.name)

IsValid(s) ==
    /\ s.complete
    /\ \A x \in s.rows : x.import # "?"
    /\ \A x \in ToImport(s) : ~IsWrong(s, x) /\ ~IsRepeated(s, x)

Plan    == ToImport(sheet)
InTab(t) == {x \in Plan : x.tab \in t}

-----------------------------------------------------------------------------
(* writePlan.                                                              *)

(* What was listed when the section began: the catalogue, and the keys of  *)
(* the entries with their dates.                                           *)
NoList == [master |-> [r \in Record |-> "absent"], entries |-> {}]
Listed == [master |-> master, entries |-> {e \in Names \X Day : entries[e] > 0}]
Idle   == [pc |-> "idle", dry |-> FALSE, section |-> 1, list |-> NoList, created |-> {},
           existing |-> {}, archived |-> {}, since |-> 0, promise |-> {}]

Announced == [created |-> run.created, archived |-> run.archived]

(* Mutant of Found: an open statement is looked for under the date of today. *)
FoundDated(x) ==
    IF x.tab \in Catalogue THEN run.list.master[<<x.tab, x.key>>] # "absent"
    ELSE <<x.key, IF x.tab = "faturas_em_aberto" THEN today ELSE 0>> \in run.list.entries

(* A row is looked up by its natural key; that of an open statement has no *)
(* date, because its entry is dated on the day of the load.                *)
Found(x) ==
    IF x.tab \in Catalogue THEN run.list.master[<<x.tab, x.key>>] # "absent"
    ELSE \E d \in Day : /\ <<x.key, d>> \in run.list.entries
                        /\ d = 0 \/ x.tab = "faturas_em_aberto"

(* The catalogue record of the row known by a name.                        *)
Resolved(ref) ==
    IF ref[1] = "tipos_receita" THEN {ref}
    ELSE {<<x.tab, x.key>> : x \in {y \in Plan : <<y.tab, y.name>> = ref}}

(* create of the service refuses a record that exists, or one that names   *)
(* something archived.                                                     *)
Refused(x) ==
    \/ x.tab \in Catalogue /\ master[<<x.tab, x.key>>] # "absent"
    \/ \E ref \in x.refs : \A m \in Resolved(ref) : master[m] # "active"

Insert(x) ==
    IF x.tab \in Catalogue
    THEN /\ master' = [master EXCEPT ![<<x.tab, x.key>>] = "active"]
         /\ UNCHANGED entries
    ELSE /\ entries' = [entries EXCEPT
                          ![<<x.key, IF x.tab = "faturas_em_aberto" THEN today ELSE 0>>] = @ + 1]
         /\ UNCHANGED master

End(kind) ==
    /\ report' = [kind |-> kind, dry |-> run.dry, announced |-> Announced,
                  promise |-> run.promise, alone |-> run.since = edits]
    /\ run' = Idle

Init ==
    /\ sheet \in Sheets
    /\ master \in Initial
    /\ entries = [e \in Names \X Day |-> 0]
    /\ today = 0
    /\ run = Idle
    /\ report = [kind |-> "none"]
    /\ promise = {}
    /\ edits = 0 /\ crashes = 0
    /\ settled = FALSE

(* runCli: the whole sheet is validated before the database is touched.    *)
Start(dry) ==
    /\ run.pc = "idle"
    /\ IF IsValid(sheet)
       THEN /\ run' = [Idle EXCEPT !.pc = "check", !.dry = dry, !.since = edits,
                                   !.promise = IF dry THEN {} ELSE promise]
            /\ promise' = {}
            /\ report' = [kind |-> "none"]
       ELSE report' = [kind |-> "invalid"] /\ UNCHANGED <<run, promise>>
    /\ UNCHANGED <<sheet, db, today, edits, crashes, settled>>

(* Earning types are looked for in the database, before the first write.   *)
(* Each section lists what exists as it begins.                            *)
CheckEarningTypes ==
    /\ run.pc = "check"
    /\ IF \A x \in InTab({"recebimentos"}) :
             \A ref \in x.refs : ref[1] = "tipos_receita" => master[ref] = "active"
       THEN run' = [run EXCEPT !.pc = "write", !.list = Listed] /\ UNCHANGED report
       ELSE End("invalid")
    /\ UNCHANGED <<sheet, db, today, promise, edits, crashes, settled>>

Written   == run.created \cup run.existing
Remaining == {x \in InTab(Sections[run.section]) : x.line \notin Written}
IsNext(x) == x \in Remaining /\ \A y \in Remaining : x.line <= y.line

(* Mutant of Keep: an archived type of the sheet stays archived. *)
KeepAsIs(x) ==
    /\ run.pc = "write" /\ IsNext(x) /\ Found(x)
    /\ run' = [run EXCEPT !.existing = @ \cup {x.line}]
    /\ UNCHANGED <<sheet, db, today, report, promise, edits, crashes, settled>>

(* A row found is left as it is, except that an archived expense type is   *)
(* used again.                                                             *)
Keep(x) ==
    /\ run.pc = "write" /\ IsNext(x) /\ Found(x)
    /\ run' = [run EXCEPT !.existing = @ \cup {x.line}]
    /\ master' = IF x.tab = "tipos_despesa" /\ ~run.dry
                    /\ run.list.master[<<x.tab, x.key>>] = "archived"
                 THEN [master EXCEPT ![<<x.tab, x.key>>] = "active"] ELSE master
    /\ UNCHANGED <<sheet, entries, today, report, promise, edits, crashes, settled>>

Create(x) ==
    /\ run.pc = "write" /\ IsNext(x) /\ ~Found(x)
    /\ run.dry \/ ~Refused(x)
    /\ IF run.dry THEN UNCHANGED db ELSE Insert(x)
    /\ run' = [run EXCEPT !.created = @ \cup {x.line}]
    /\ UNCHANGED <<sheet, today, report, promise, edits, crashes, settled>>

(* ERR-0019-07: the service refuses the row and the load stops there.      *)
Refuse(x) ==
    /\ run.pc = "write" /\ IsNext(x) /\ ~Found(x)
    /\ ~run.dry /\ Refused(x)
    /\ End("refused")
    /\ UNCHANGED <<sheet, db, today, promise, edits, crashes, settled>>

(* Mutant of OffSheet: the dry run leaves the archiving out. *)
OffSheetWhenWriting ==
    {t \in Names : /\ run.list.master[<<"tipos_despesa", t>>] = "active" /\ ~run.dry
                   /\ t \notin {x.key : x \in InTab({"tipos_despesa"})}}

(* The active expense types, as listed, that are not on the sheet.         *)
OffSheet ==
    {t \in Names : /\ run.list.master[<<"tipos_despesa", t>>] = "active"
                   /\ t \notin {x.key : x \in InTab({"tipos_despesa"})}}

Archive(t) ==
    /\ run.pc = "write" /\ run.section = 4 /\ Remaining = {}
    /\ t \in OffSheet \ run.archived
    /\ run' = [run EXCEPT !.archived = @ \cup {t}]
    /\ master' = IF run.dry THEN master ELSE [master EXCEPT ![<<"tipos_despesa", t>>] = "archived"]
    /\ UNCHANGED <<sheet, entries, today, report, promise, edits, crashes, settled>>

SectionEnded ==
    /\ run.pc = "write" /\ Remaining = {}
    /\ run.section = 4 => OffSheet \subseteq run.archived

NextSection ==
    /\ SectionEnded /\ run.section < 6
    /\ run' = [run EXCEPT !.list = Listed, !.section = @ + 1]
    /\ UNCHANGED <<sheet, db, today, report, promise, edits, crashes, settled>>

Finish ==
    /\ SectionEnded /\ run.section = 6
    /\ End("done")
    /\ promise' = IF run.dry /\ run.since = edits THEN {Announced} ELSE {}
    /\ settled' = IF run.dry THEN settled ELSE run.since = edits
    /\ UNCHANGED <<sheet, db, today, edits, crashes>>

-----------------------------------------------------------------------------
(* Around the load.                                                        *)

Crash ==
    /\ run.pc # "idle" /\ crashes < MaxCrashes
    /\ crashes' = crashes + 1
    /\ run' = Idle
    /\ report' = [kind |-> "none"]
    /\ UNCHANGED <<sheet, db, today, promise, edits, settled>>

(* A load keeps the day it began on. *)
Midnight ==
    /\ today < MaxDay /\ run.pc = "idle"
    /\ today' = today + 1
    /\ UNCHANGED <<sheet, db, run, report, promise, edits, crashes, settled>>

Edited ==
    /\ edits < MaxEdits
    /\ edits' = edits + 1
    /\ promise' = {} /\ settled' = FALSE
    /\ UNCHANGED <<sheet, today, run, report, crashes>>

(* setArchived of any of the catalogues, in either direction, and create   *)
(* of an expense type.                                                     *)
SetArchived(m) ==
    /\ Edited
    /\ master[m] # "absent"
    /\ master' = [master EXCEPT ![m] = IF @ = "active" THEN "archived" ELSE "active"]
    /\ UNCHANGED entries

CreateType(t) ==
    /\ Edited
    /\ master[<<"tipos_despesa", t>>] = "absent"
    /\ master' = [master EXCEPT ![<<"tipos_despesa", t>>] = "active"]
    /\ UNCHANGED entries

DeleteEntry(e) ==
    /\ Edited
    /\ entries[e] > 0
    /\ entries' = [entries EXCEPT ![e] = @ - 1]
    /\ UNCHANGED master

LoadStep ==
    \/ CheckEarningTypes \/ NextSection \/ Finish
    \/ \E x \in Plan : Keep(x) \/ Create(x) \/ Refuse(x)
    \/ \E t \in Names : Archive(t)

Next ==
    \/ \E dry \in BOOLEAN : Start(dry)
    \/ LoadStep
    \/ Crash \/ Midnight
    \/ \E m \in Record : SetArchived(m)
    \/ \E t \in Names : CreateType(t)
    \/ \E e \in Names \X Day : DeleteEntry(e)

Spec == Init /\ [][Next]_vars

(* A load goes on until it ends or is killed, and is run again; dry runs   *)
(* may come in between.                                                    *)
FairSpec == Spec /\ WF_vars(LoadStep) /\ SF_vars(Start(FALSE))
-----------------------------------------------------------------------------
(* Properties.                                                             *)

(* Types, with the most important of them: no key is there twice           *)
(* (INV-0019-03), wherever the loads before it stopped, on whatever day    *)
(* they ran, and whatever the users archived or deleted.                   *)
TypeOK ==
    /\ sheet \in Sheets
    /\ master \in [Record -> State]
    /\ entries \in [Names \X Day -> 0..1]
    /\ \A x \in InTab({"faturas_em_aberto"}) :
         Cardinality({d \in Day : entries[<<x.key, d>>] > 0}) <= 1
    /\ today \in Day
    /\ run.pc \in {"idle", "check", "write"}
    /\ run.created \cap run.existing = {}
    /\ edits \in 0..MaxEdits /\ crashes \in 0..MaxCrashes
    /\ settled \in BOOLEAN

Present(x) ==
    IF x.tab \in Catalogue THEN master[<<x.tab, x.key>>] # "absent"
    ELSE \E d \in Day : entries[<<x.key, d>>] > 0

(* INV-0019-06: after a load everything of the sheet is there and the      *)
(* active expense types are those of the sheet, until a user changes       *)
(* something: neither a dry run nor another load does.                     *)
Loaded ==
    settled =>
        /\ \A x \in Plan : Present(x)
        /\ {t \in Names : master[<<"tipos_despesa", t>>] = "active"}
             = {x.key : x \in InTab({"tipos_despesa"})}

(* AC-0019-03: a load does what the dry run before it announced, unless    *)
(* somebody changed something in between.                                  *)
DryRunHonest ==
    (report.kind = "done" /\ ~report.dry /\ report.alone) =>
        report.promise \subseteq {report.announced}

(* A planned row is missing and names a record that was archived, or an    *)
(* earning type is not there: the load cannot go on.                       *)
Blocked ==
    \/ \E x \in Plan : /\ ~Present(x)
                       /\ \E ref \in x.refs :
                            /\ ref[1] # "tipos_despesa"
                            /\ \E m \in Resolved(ref) : master[m] = "archived"
    \/ \E x \in Plan, t \in Names :
         <<"tipos_receita", t>> \in x.refs /\ master[<<"tipos_receita", t>>] # "active"

(* ERR-0019-07 and INV-0019-01: a valid sheet is loaded in the end however *)
(* often the load stops: what validation let pass is never refused for     *)
(* good, unless the users archived what it needs.                          *)
LoadEnds == []<>(settled \/ Blocked \/ ~IsValid(sheet))
=============================================================================
