------------------------- MODULE InitialLoadProofs -------------------------
(***************************************************************************)
(* What loads leave, for every sheet, catalogue and number of edits and    *)
(* crashes: no entry twice, everything of the sheet there, and the dry run *)
(* kept as a promise.                                                      *)
(*                                                                         *)
(* The argument looks at the rows still to be written: what was listed of  *)
(* them when their section began is still so, as long as nobody edits,     *)
(* because the rows written meanwhile have other keys.                     *)
(***************************************************************************)
EXTENDS InitialLoad, FiniteSetTheorems, TLAPS

(* The rows that become entries have keys of their own, those of different *)
(* tabs included: an expense is told from an earning, and no purchase is   *)
(* on the fixed and on the installment tab, which share the keys of        *)
(* expenses.  Checker.unique only sees to it within a tab, and a load      *)
(* would create such a purchase twice.                                     *)
KeysApart ==
    \A s \in Sheets : \A x, y \in ToImport(s) :
        x.tab \notin Catalogue /\ y.tab \notin Catalogue /\ x.tab # y.tab => x.key # y.key

-----------------------------------------------------------------------------
(* The inductive invariant.                                                *)

Statements == "faturas_em_aberto"
Types      == "tipos_despesa"
OnTypes    == {x.key : x \in InTab({Types})}
OffTypes   == Names \ OnTypes
ActiveOff  == {t \in OffTypes : master[<<Types, t>>] = "active"}

Outcome == [created : SUBSET Nat, archived : SUBSET Names]
List    == [master : [Record -> State], entries : SUBSET (Names \X Day)]
Run     == [pc : {"idle", "check", "write"}, dry : BOOLEAN, section : Section, list : List,
            created : SUBSET Nat, existing : SUBSET Nat, archived : SUBSET Names,
            since : Nat, promise : SUBSET Outcome]

Typed ==
    /\ sheet \in Sheets
    /\ master \in [Record -> State]
    /\ entries \in [Names \X Day -> 0..1]
    /\ today \in Day
    /\ run \in Run /\ promise \in SUBSET Outcome
    /\ edits \in 0..MaxEdits /\ crashes \in 0..MaxCrashes
    /\ settled \in BOOLEAN

(* What is there of a row has the one date the row may have.               *)
Dated ==
    \A x \in Plan : x.tab \notin Catalogue =>
        \A d, e \in Day : /\ entries[<<x.key, d>>] > 0 /\ entries[<<x.key, e>>] > 0 => d = e
                          /\ entries[<<x.key, d>>] > 0 /\ x.tab # Statements => d = 0

(* A load is of a valid sheet, and has written what comes before its       *)
(* section, each row once.                                                 *)
Running ==
    /\ run.pc # "idle" => IsValid(sheet) /\ promise = {} /\ run.since <= edits
    /\ run.pc # "write" => Written = {} /\ run.archived = {} /\ run.section = 1
    /\ run.created \cap run.existing = {} /\ run.archived \subseteq OffTypes
    /\ \A x \in Plan, i \in Section : i < run.section /\ x.tab \in Sections[i] => x.line \in Written

(* An entry that is there of a row still to be written was listed.         *)
Fresh ==
    run.pc = "write" =>
        \A x \in Remaining : x.tab \notin Catalogue =>
            \A d \in Day : entries[<<x.key, d>>] > 0 => <<x.key, d>> \in run.list.entries

(* As long as nobody edits, what was listed of the rows still to be        *)
(* written, and of the types still to be archived, is what is there.       *)
Alone == run.pc # "idle" /\ run.since = edits
SameRow(x) ==
    IF x.tab \in Catalogue THEN run.list.master[<<x.tab, x.key>>] = master[<<x.tab, x.key>>]
    ELSE \A d \in Day : <<x.key, d>> \in run.list.entries <=> entries[<<x.key, d>>] > 0
Same ==
    Alone /\ run.pc = "write" =>
        /\ \A x \in Remaining : SameRow(x)
        /\ run.section = 4 => \A t \in OffTypes \ run.archived :
                                 run.list.master[<<Types, t>>] = master[<<Types, t>>]
        /\ run.section > 4 => ActiveOff \subseteq run.archived

(* What it has written is there.                                           *)
Done ==
    Alone /\ ~run.dry =>
        /\ \A x \in Plan : x.line \in Written =>
              Present(x) /\ (x.tab = Types => master[<<Types, x.key>>] = "active")
        /\ \A t \in run.archived : master[<<Types, t>>] # "active"

(* What a load would do now, and what the load in progress will have done. *)
Missing  == {x \in Plan : ~Present(x)}
Expected == [created |-> {x.line : x \in Missing}, archived |-> ActiveOff]
Foretold == [created |-> run.created \cup {x.line : x \in {y \in Missing : y.line \notin Written}},
             archived |-> run.archived \cup ActiveOff]
Promised ==
    /\ \A p \in promise : p = Expected
    /\ Alone => /\ \A p \in run.promise : p = Foretold
                /\ run.dry => Foretold = Expected

(* A load of what is settled finds everything.                             *)
Quiet ==
    settled =>
        /\ \A x \in Plan : Present(x)
        /\ \A t \in Names : master[<<Types, t>>] = "active" <=> t \in OnTypes
        /\ run.pc = "write" =>
             /\ \A x \in Plan : Found(x)
             /\ \A t \in Names : run.list.master[<<Types, t>>] = "active" <=> t \in OnTypes

Inv ==
    /\ Typed /\ Dated /\ Running /\ Fresh /\ Same /\ Done /\ Promised /\ Quiet /\ DryRunHonest
-----------------------------------------------------------------------------
(* Rows and tabs. *)

(* What a row of the plan has. *)
LEMMA RowParts ==
    ASSUME sheet \in Sheets, NEW x \in Plan
    PROVE  /\ x.line \in Nat /\ x.key \in Names /\ x.tab \in Tab
           /\ x.tab \in Catalogue => <<x.tab, x.key>> \in Record
           /\ \A y \in Plan : x.line = y.line => x = y
<1>1. IsSheet(sheet) /\ Plan \subseteq sheet.rows
  BY InitialLoadAssumption DEF Plan, ToImport
<1>2. x \in Row /\ \A y \in Plan : x.line = y.line => x = y
  BY <1>1 DEF IsSheet
<1>3. x.line \in Nat /\ x.key \in Names /\ x.tab \in Tab
  BY <1>2 DEF Row
<1>. QED
  BY <1>2, <1>3 DEF Record

(* Every tab is in one section, and that of expense types is the fourth. *)
LEMMA TabSections ==
    /\ \A t \in Tab : \E i \in Section : t \in Sections[i]
    /\ \A i, j \in Section : \A t : t \in Sections[i] /\ t \in Sections[j] => i = j
    /\ \A i \in Section : Types \in Sections[i] <=> i = 4
    /\ Types \in Catalogue /\ Statements \notin Catalogue /\ Types \in Tab
<1>1. \A t \in Tab : \E i \in Section : t \in Sections[i]
  BY DEF Tab
<1>2. Section = {1, 2, 3, 4, 5, 6}
  BY DEF Section
<1>3. /\ Sections[1] = {"bancos"} /\ Sections[2] = {"contas"} /\ Sections[3] = {"cartoes"}
      /\ Sections[4] = {"tipos_despesa"} /\ Sections[6] = {"recebimentos"}
      /\ Sections[5] = {"despesas_fixas", "despesas_parceladas", "faturas_em_aberto"}
  BY DEF Sections
<1>4. \A i, j \in Section : \A t : t \in Sections[i] /\ t \in Sections[j] => i = j
  BY <1>2, <1>3
<1>5. \A i \in Section : Types \in Sections[i] <=> i = 4
  BY <1>2, <1>3 DEF Types
<1>6. Types \in Tab
  BY <1>2, <1>5 DEF Tab
<1>. QED
  BY <1>1, <1>4, <1>5, <1>6 DEF Types, Statements, Catalogue

(* Two rows of a valid sheet have different keys: in their tab if they are *)
(* of a catalogue, and in all if they become entries.                      *)
LEMMA DifferentKeys ==
    ASSUME KeysApart, sheet \in Sheets, IsValid(sheet), NEW x \in Plan, NEW y \in Plan, x # y
    PROVE  /\ x.tab = y.tab => x.key # y.key
           /\ x.tab \notin Catalogue /\ y.tab \notin Catalogue => x.key # y.key
<1>1. x.line \in Nat /\ y.line \in Nat /\ x.line # y.line
  BY RowParts
<1>2. \A z \in Plan : ~IsWrong(sheet, z) /\ ~IsRepeated(sheet, z)
  BY DEF IsValid, Plan
<1>3. x.tab = y.tab => x.key # y.key
  <2>1. x.line < y.line \/ y.line < x.line
    BY <1>1
  <2>. QED
    BY <1>2, <2>1 DEF IsRepeated, Plan
<1>4. x.tab \notin Catalogue /\ y.tab \notin Catalogue /\ x.tab # y.tab => x.key # y.key
  BY DEF KeysApart, Plan
<1>. QED
  BY <1>3, <1>4

(* A row that is still to be written. *)
LEMMA RemainingRow ==
    ASSUME Typed, NEW x \in Remaining
    PROVE  x \in Plan /\ x.tab \in Sections[run.section] /\ x.line \notin Written
  BY DEF Remaining, InTab

(* The types on the sheet. *)
LEMMA TypesOn ==
    /\ \A x \in Plan : x.tab = Types => x.key \in OnTypes
    /\ OffSheet = {t \in OffTypes : run.list.master[<<Types, t>>] = "active"}
<1>1. \A x \in Plan : x.tab = Types => x \in InTab({Types})
  BY DEF InTab
<1>. QED
  BY <1>1 DEF OnTypes, OffTypes, OffSheet, Types

(* What is there of a row is what a load looks for. *)
LEMMA PresentFound ==
    ASSUME Typed, Dated, NEW x \in Plan
    PROVE  Present(x) <=>
             IF x.tab \in Catalogue THEN master[<<x.tab, x.key>>] # "absent"
             ELSE \E d \in Day : entries[<<x.key, d>>] > 0 /\ (d = 0 \/ x.tab = Statements)
  BY DEF Present, Dated

(* When what was listed of a row is what is there, it is found if present. *)
LEMMA SameFound ==
    ASSUME Typed, Dated, NEW x \in Plan, SameRow(x)
    PROVE  Found(x) <=> Present(x)
<1>1. CASE x.tab \in Catalogue
  BY <1>1 DEF SameRow, Found, Present
<1>2. CASE x.tab \notin Catalogue
  <2>1. \A d \in Day : <<x.key, d>> \in run.list.entries <=> entries[<<x.key, d>>] > 0
    BY <1>2 DEF SameRow
  <2>2. Found(x) <=> \E d \in Day : <<x.key, d>> \in run.list.entries /\ (d = 0 \/ x.tab = Statements)
    BY <1>2 DEF Found, Statements
  <2>. QED
    BY <1>2, <2>1, <2>2, PresentFound
<1>. QED
  BY <1>1, <1>2

-----------------------------------------------------------------------------
(* The start, and what is between loads. *)

(* The operators that read the catalogue and the entries alone. *)
LEMMA SameTables ==
    ASSUME UNCHANGED <<sheet, master, entries>>
    PROVE  /\ Plan' = Plan /\ OnTypes' = OnTypes /\ OffTypes' = OffTypes /\ ActiveOff' = ActiveOff
           /\ Missing' = Missing /\ Expected' = Expected
           /\ Dated => Dated'
           /\ \A x : Present(x)' <=> Present(x)
<1>1. Plan' = Plan /\ \A T : InTab(T)' = InTab(T)
  BY DEF Plan, InTab
<1>2. OnTypes' = OnTypes /\ OffTypes' = OffTypes
  BY <1>1 DEF OnTypes, OffTypes
<1>3. ActiveOff' = ActiveOff
  BY <1>2 DEF ActiveOff
<1>4. \A x : Present(x)' <=> Present(x)
  BY DEF Present
<1>5. Missing' = Missing
  BY <1>1, <1>4 DEF Missing
<1>6. Expected' = Expected
  BY <1>3, <1>5 DEF Expected
<1>7. Dated => Dated'
  BY <1>1 DEF Dated
<1>. QED
  BY <1>1, <1>2, <1>3, <1>4, <1>5, <1>6, <1>7

(* No load is in progress. *)
LEMMA IdleType == Idle \in Run /\ NoList \in List
<1>1. NoList \in List
  BY DEF NoList, List, State
<1>. QED
  BY <1>1 DEF Idle, Run, Section

(* A load ends, or does not begin. *)
LEMMA Rest ==
    ASSUME Inv, run' = Idle, UNCHANGED <<sheet, master, entries>>, today' \in Day,
           edits' = edits, crashes' \in 0..MaxCrashes,
           promise' \in SUBSET Outcome, \A p \in promise' : p = Expected,
           settled' \in BOOLEAN,
           settled' => /\ \A x \in Plan : Present(x)
                       /\ \A t \in Names : master[<<Types, t>>] = "active" <=> t \in OnTypes,
           DryRunHonest'
    PROVE  Inv'
<1>1. run'.pc = "idle" /\ Written' = {} /\ run'.created = {} /\ run'.existing = {}
      /\ run'.archived = {} /\ run'.section = 1
  BY DEF Idle, Written
<1>2. Typed'
  BY IdleType DEF Inv, Typed
<1>3. Dated'
  BY SameTables DEF Inv
<1>4. Running'
  <2>1. \A i \in Section : ~(i < 1)
    BY DEF Section
  <2>. QED
    BY <1>1, <2>1 DEF Running
<1>5. Fresh' /\ Same' /\ Done'
  BY <1>1 DEF Fresh, Same, Done, Alone
<1>6. Promised'
  BY <1>1, SameTables DEF Promised, Alone
<1>7. Quiet'
  BY <1>1, SameTables DEF Quiet
<1>. QED
  BY <1>2, <1>3, <1>4, <1>5, <1>6, <1>7 DEF Inv

(* Nothing is loaded at the start. *)
LEMMA InitInv == ASSUME Init PROVE Inv
<1>1. Typed
  <2>1. 0 \in 0..MaxEdits /\ 0 \in 0..MaxCrashes /\ 0 \in Day
    BY InitialLoadAssumption DEF Day
  <2>2. master \in [Record -> State] /\ entries \in [Names \X Day -> 0..1]
    BY InitialLoadAssumption DEF Init
  <2>. QED
    BY <2>1, <2>2, IdleType DEF Init, Typed
<1>2. run.pc = "idle" /\ Written = {} /\ run.created = {} /\ run.existing = {}
      /\ run.archived = {} /\ run.section = 1
  BY DEF Init, Idle, Written
<1>3. Dated
  <2>1. ASSUME NEW x \in Plan, NEW d \in Day PROVE entries[<<x.key, d>>] = 0
    BY <1>1, RowParts DEF Init, Typed
  <2>. QED
    BY <2>1 DEF Dated
<1>4. Running
  <2>1. \A i \in Section : ~(i < 1)
    BY DEF Section
  <2>. QED
    BY <1>2, <2>1 DEF Running
<1>5. Fresh /\ Same /\ Done /\ Promised /\ Quiet
  BY <1>2 DEF Init, Fresh, Same, Done, Alone, Promised, Quiet
<1>6. DryRunHonest
  BY DEF Init, DryRunHonest
<1>. QED
  BY <1>1, <1>3, <1>4, <1>5, <1>6 DEF Inv

(* runCli begins with the whole sheet. *)
LEMMA StartInv == ASSUME Inv, NEW dry \in BOOLEAN, Start(dry) PROVE Inv'
<1>0. Typed /\ Running /\ run.pc = "idle" /\ UNCHANGED <<sheet, master, entries, today, edits, crashes, settled>>
  BY DEF Inv, Start, db
<1>1. CASE IsValid(sheet)
  <2>1. /\ run' = [Idle EXCEPT !.pc = "check", !.dry = dry, !.since = edits,
                               !.promise = IF dry THEN {} ELSE promise]
        /\ promise' = {} /\ report' = [kind |-> "none"]
    BY <1>1 DEF Start
  <2>2. /\ run'.pc = "check" /\ run'.dry = dry /\ run'.since = edits /\ run'.promise \subseteq promise
        /\ run'.created = {} /\ run'.existing = {} /\ run'.archived = {} /\ run'.section = 1
        /\ Written' = {}
    BY <2>1 DEF Idle, Written
  <2>3. Typed'
    <3>1. edits \in Nat /\ promise \in SUBSET Outcome
      BY <1>0, InitialLoadAssumption DEF Typed
    <3>2. run' \in Run
      BY <2>1, <3>1, IdleType DEF Run, Idle
    <3>. QED
      BY <1>0, <2>1, <3>2 DEF Typed
  <2>4. Dated'
    BY <1>0, SameTables DEF Inv
  <2>5. Running'
    <3>1. \A i \in Section : ~(i < 1)
      BY DEF Section
    <3>2. edits \in Int
      BY <1>0 DEF Typed
    <3>3. IsValid(sheet)'
      BY <1>0, <1>1 DEF IsValid, IsWrong, IsRepeated, ToImport, Unresolved, HasTarget, Referable
    <3>. QED
      BY <1>0, <2>1, <2>2, <3>1, <3>2, <3>3 DEF Running
  <2>6. Fresh' /\ Same'
    BY <2>2 DEF Fresh, Same
  <2>7. Done'
    BY <2>2 DEF Done
  <2>8. Foretold' = Expected'
    <3>1. {x.line : x \in {y \in Missing' : y.line \notin Written'}} = {x.line : x \in Missing'}
      BY <2>2
    <3>. QED
      BY <2>2, <3>1 DEF Foretold, Expected
  <2>9. Promised'
    BY <1>0, <2>1, <2>2, <2>8, SameTables DEF Promised, Inv
  <2>10. Quiet'
    BY <1>0, <2>2, SameTables DEF Quiet, Inv
  <2>11. DryRunHonest'
    BY <2>1 DEF DryRunHonest
  <2>. QED
    BY <2>3, <2>4, <2>5, <2>6, <2>7, <2>9, <2>10, <2>11 DEF Inv
<1>2. CASE ~IsValid(sheet)
  <2>1. report' = [kind |-> "invalid"] /\ UNCHANGED <<run, promise>>
    BY <1>2 DEF Start
  <2>2. Typed'
    BY <1>0, <2>1 DEF Typed
  <2>3. Dated' /\ run'.pc = "idle" /\ Written' = Written
    BY <1>0, <2>1, SameTables DEF Inv, Written
  <2>4. Running'
    BY <1>0, <2>1, <2>3, SameTables DEF Running
  <2>5. Fresh' /\ Same' /\ Done'
    BY <2>3 DEF Fresh, Same, Done, Alone
  <2>6. Promised' /\ Quiet'
    BY <1>0, <2>1, <2>3, SameTables DEF Promised, Alone, Quiet, Inv
  <2>7. DryRunHonest'
    BY <2>1 DEF DryRunHonest
  <2>. QED
    BY <2>2, <2>3, <2>4, <2>5, <2>6, <2>7 DEF Inv
<1>. QED
  BY <1>1, <1>2

(* The load is killed. *)
LEMMA CrashInv == ASSUME Inv, Crash PROVE Inv'
<1>1. /\ run' = Idle /\ report' = [kind |-> "none"] /\ crashes' = crashes + 1 /\ crashes < MaxCrashes
      /\ UNCHANGED <<sheet, master, entries, today, promise, edits, settled>>
  BY DEF Crash, db
<1>2. DryRunHonest'
  BY <1>1 DEF DryRunHonest
<1>3. crashes' \in 0..MaxCrashes
  BY <1>1, InitialLoadAssumption DEF Inv, Typed
<1>4. Typed /\ Promised /\ Quiet
  BY DEF Inv
<1>5. /\ today' \in Day /\ promise' \in SUBSET Outcome /\ settled' \in BOOLEAN
      /\ \A p \in promise' : p = Expected
      /\ settled' => /\ \A x \in Plan : Present(x)
                     /\ \A t \in Names : master[<<Types, t>>] = "active" <=> t \in OnTypes
  BY <1>1, <1>4 DEF Typed, Promised, Quiet
<1>. QED
  BY <1>1, <1>2, <1>3, <1>5, Rest

(* A day passes between loads. *)
LEMMA MidnightInv == ASSUME Inv, Midnight PROVE Inv'
<1>1. /\ today < MaxDay /\ today' = today + 1 /\ run.pc = "idle"
      /\ UNCHANGED <<sheet, master, entries, run, report, promise, edits, crashes, settled>>
  BY DEF Midnight, db
<1>2. Typed'
  BY <1>1, InitialLoadAssumption DEF Inv, Typed, Day
<1>3. Dated' /\ Written' = Written /\ run'.pc = "idle"
  BY <1>1, SameTables DEF Inv, Written
<1>4. Running'
  BY <1>1, <1>3, SameTables DEF Running, Inv
<1>5. Fresh' /\ Same' /\ Done'
  BY <1>3 DEF Fresh, Same, Done, Alone
<1>6. Promised' /\ Quiet' /\ DryRunHonest'
  BY <1>1, <1>3, SameTables DEF Promised, Alone, Quiet, DryRunHonest, Inv
<1>. QED
  BY <1>2, <1>3, <1>4, <1>5, <1>6 DEF Inv

-----------------------------------------------------------------------------
(* What the users change: what was read or promised counts no more.        *)

(* The catalogue and the entries become others, none of which is new. *)
LEMMA EditInv ==
    ASSUME Inv, Edited, master' \in [Record -> State], entries' \in [Names \X Day -> 0..1],
           \A e \in Names \X Day : entries'[e] <= entries[e]
    PROVE  Inv'
<1>1. /\ edits < MaxEdits /\ edits' = edits + 1 /\ promise' = {} /\ settled' = FALSE
      /\ UNCHANGED <<sheet, today, run, report, crashes>>
  BY DEF Edited
<1>2. Typed /\ edits \in Nat /\ edits' \in 0..MaxEdits
  BY <1>1, InitialLoadAssumption DEF Inv, Typed
<1>3. Typed'
  BY <1>1, <1>2 DEF Typed
<1>4. Plan' = Plan /\ OffTypes' = OffTypes /\ Written' = Written /\ Remaining' = Remaining
  BY <1>1 DEF Plan, InTab, OnTypes, OffTypes, Written, Remaining
<1>5. ASSUME NEW x \in Plan, NEW d \in Day, entries'[<<x.key, d>>] > 0
      PROVE  entries[<<x.key, d>>] > 0
  <2>1. <<x.key, d>> \in Names \X Day
    BY <1>2, RowParts DEF Typed
  <2>2. entries[<<x.key, d>>] \in 0..1 /\ entries'[<<x.key, d>>] \in 0..1
    BY <1>2, <2>1 DEF Typed
  <2>. QED
    BY <1>5, <2>1, <2>2
<1>6. Dated'
  BY <1>4, <1>5 DEF Dated, Inv
<1>8. Running'
  <2>1. Running
    BY DEF Inv
  <2>2. IsValid(sheet)' <=> IsValid(sheet)
    BY <1>1 DEF IsValid, IsWrong, IsRepeated, ToImport, Unresolved, HasTarget, Referable
  <2>3. run.pc # "idle" => run'.since <= edits'
    BY <1>1, <1>2, <2>1 DEF Running, Typed, Run
  <2>. QED
    BY <1>1, <1>4, <2>1, <2>2, <2>3 DEF Running
<1>9. Fresh'
  <2>1. ASSUME run.pc = "write", NEW x \in Remaining, x.tab \notin Catalogue, NEW d \in Day,
               entries'[<<x.key, d>>] > 0
        PROVE  <<x.key, d>> \in run.list.entries
    <3>1. x \in Plan
      BY <1>2, RemainingRow
    <3>2. entries[<<x.key, d>>] > 0
      BY <1>5, <2>1, <3>1
    <3>. QED
      BY <2>1, <3>2 DEF Fresh, Inv
  <2>. QED
    BY <1>1, <1>4, <2>1 DEF Fresh
<1>10. ~Alone'
  <2>1. run'.since \in Int /\ edits' \in Int
    BY <1>1, <1>2 DEF Typed, Run
  <2>. QED
    BY <1>1, <1>2, <2>1 DEF Alone, Running, Inv
<1>11. Same' /\ Done' /\ Promised' /\ Quiet' /\ DryRunHonest'
  BY <1>1, <1>10 DEF Same, Done, Promised, Quiet, DryRunHonest, Inv
<1>. QED
  BY <1>3, <1>6, <1>8, <1>9, <1>11 DEF Inv

(* setArchived, create of a type, and delete of an entry. *)
LEMMA EditsInv ==
    ASSUME Inv, \/ \E m \in Record : SetArchived(m)
                \/ \E t \in Names : CreateType(t)
                \/ \E e \in Names \X Day : DeleteEntry(e)
    PROVE  Inv'
<1>1. Edited
  BY DEF SetArchived, CreateType, DeleteEntry
<1>2. master \in [Record -> State] /\ entries \in [Names \X Day -> 0..1]
  BY DEF Inv, Typed
<1>3. master' \in [Record -> State]
  <2>1. ASSUME NEW m \in Record, SetArchived(m) PROVE master' \in [Record -> State]
    BY <1>2, <2>1 DEF SetArchived, State
  <2>2. ASSUME NEW t \in Names, CreateType(t) PROVE master' \in [Record -> State]
    BY <1>2, <2>2 DEF CreateType, State
  <2>3. ASSUME NEW e \in Names \X Day, DeleteEntry(e) PROVE master' \in [Record -> State]
    BY <1>2, <2>3 DEF DeleteEntry
  <2>. QED
    BY <2>1, <2>2, <2>3
<1>4. ASSUME NEW e \in Names \X Day, DeleteEntry(e)
      PROVE  /\ entries' \in [Names \X Day -> 0..1]
             /\ \A o \in Names \X Day : entries'[o] <= entries[o]
  <2>1. entries' = [entries EXCEPT ![e] = @ - 1] /\ entries[e] > 0
    BY <1>4 DEF DeleteEntry
  <2>2. \A o \in Names \X Day : entries[o] \in 0..1
    BY <1>2
  <2>3. entries[e] - 1 \in 0..1 /\ entries[e] - 1 <= entries[e]
    BY <2>1, <2>2
  <2>4. \A o \in Names \X Day : entries'[o] = IF o = e THEN entries[e] - 1 ELSE entries[o]
    BY <1>2, <2>1
  <2>5. entries' \in [Names \X Day -> 0..1]
    BY <1>2, <2>1, <2>3
  <2>6. ASSUME NEW o \in Names \X Day PROVE entries'[o] <= entries[o]
    <3>1. entries[o] <= entries[o]
      BY <2>2
    <3>. QED
      BY <2>3, <2>4, <3>1
  <2>. QED
    BY <2>5, <2>6
<1>5. ASSUME UNCHANGED entries
      PROVE  /\ entries' \in [Names \X Day -> 0..1]
             /\ \A o \in Names \X Day : entries'[o] <= entries[o]
  <2>1. \A o \in Names \X Day : entries[o] \in 0..1
    BY <1>2
  <2>. QED
    BY <1>2, <1>5, <2>1
<1>6. UNCHANGED entries \/ \E e \in Names \X Day : DeleteEntry(e)
  BY DEF SetArchived, CreateType
<1>. QED
  BY <1>1, <1>3, <1>4, <1>5, <1>6, EditInv

-----------------------------------------------------------------------------
(* The load before, between and after its rows. *)

(* A section begins: what is there has just been listed. *)
LEMMA NewSection ==
    ASSUME Inv, run.pc # "idle", UNCHANGED <<sheet, master, entries, today, report, promise, edits, crashes, settled>>,
           NEW i \in Section,
           run' = [run EXCEPT !.pc = "write", !.list = Listed, !.section = i],
           \A x \in Plan, j \in Section : j < i /\ x.tab \in Sections[j] => x.line \in Written,
           Alone /\ i > 4 => ActiveOff \subseteq run.archived
    PROVE  Inv'
<1>0. Typed /\ Dated /\ Running
  BY DEF Inv
<1>1. Listed \in List
  BY <1>0 DEF Typed, Listed, List
<1>2. run \in Run /\ run' \in Run
  BY <1>0, <1>1 DEF Typed, Run
<1>3. /\ run'.pc = "write" /\ run'.list = Listed /\ run'.section = i /\ run'.dry = run.dry
      /\ run'.created = run.created /\ run'.existing = run.existing /\ run'.archived = run.archived
      /\ run'.since = run.since /\ run'.promise = run.promise
  BY <1>2 DEF Run
<1>4. Written' = Written /\ Alone' = Alone /\ Foretold' = Foretold
  <2>1. Written' = Written /\ Alone' = Alone
    BY <1>3 DEF Written, Alone
  <2>. QED
    BY <1>3, <2>1, SameTables DEF Foretold
<1>5. Typed'
  BY <1>0, <1>2 DEF Typed
<1>6. Dated'
  BY <1>0, SameTables
<1>7. Running'
  <2>1. IsValid(sheet)' <=> IsValid(sheet)
    BY DEF IsValid, IsWrong, IsRepeated, ToImport, Unresolved, HasTarget, Referable
  <2>. QED
    BY <1>0, <1>3, <1>4, <2>1, SameTables DEF Running
<1>8. ASSUME NEW x \in Plan PROVE SameRow(x)'
  <2>1. x.key \in Names /\ (x.tab \in Catalogue => <<x.tab, x.key>> \in Record)
    BY <1>0, RowParts DEF Typed
  <2>2. Listed.master = master /\ Listed.entries = {e \in Names \X Day : entries[e] > 0}
    BY DEF Listed
  <2>3. \A d \in Day : <<x.key, d>> \in Listed.entries <=> entries[<<x.key, d>>] > 0
    BY <2>1, <2>2
  <2>. QED
    BY <1>3, <2>2, <2>3 DEF SameRow
<1>9. \A x \in Remaining' : x \in Plan
  BY SameTables DEF Remaining, InTab
<1>10. Fresh'
  BY <1>8, <1>9 DEF Fresh, SameRow
<1>11. Same'
  <2>1. Listed.master = master
    BY DEF Listed
  <2>. QED
    BY <1>3, <1>4, <1>8, <1>9, <2>1, SameTables DEF Same
<1>12. Done' /\ Promised'
  <2>1. Done'
    BY <1>3, <1>4, SameTables DEF Done, Inv
  <2>2. Promised'
    BY <1>3, <1>4, SameTables DEF Promised, Inv
  <2>. QED
    BY <2>1, <2>2
<1>13. Quiet'
  <2>1. \A x \in Plan : Found(x)' <=> Present(x)
    <3>1. ASSUME NEW x \in Plan PROVE Found(x)' <=> Present(x)'
      <4>1. CASE x.tab \in Catalogue
        BY <1>8, <4>1 DEF SameRow, Found, Present
      <4>2. CASE x.tab \notin Catalogue
        <5>1. \A d \in Day : <<x.key, d>> \in run'.list.entries <=> entries'[<<x.key, d>>] > 0
          BY <1>8, <4>2 DEF SameRow
        <5>2. Found(x)' <=> \E d \in Day : <<x.key, d>> \in run'.list.entries /\ (d = 0 \/ x.tab = Statements)
          BY <4>2 DEF Found, Statements
        <5>3. \A d \in Day : entries'[<<x.key, d>>] > 0 => d = 0 \/ x.tab = Statements
          BY <1>6, <4>2, SameTables DEF Dated
        <5>. QED
          BY <4>2, <5>1, <5>2, <5>3 DEF Present
      <4>. QED
        BY <4>1, <4>2
    <3>. QED
      BY <3>1, SameTables
  <2>2. run'.list.master = master
    BY <1>3 DEF Listed
  <2>. QED
    BY <1>3, <2>1, <2>2, SameTables DEF Quiet, Inv
<1>14. DryRunHonest'
  BY DEF DryRunHonest, Inv
<1>. QED
  BY <1>5, <1>6, <1>7, <1>10, <1>11, <1>12, <1>13, <1>14 DEF Inv

(* A load that is refused ends as one that is killed. *)
LEMMA StopInv ==
    ASSUME Inv, NEW kind \in {"invalid", "refused"}, End(kind),
           UNCHANGED <<sheet, master, entries, today, promise, edits, crashes, settled>>
    PROVE  Inv'
<1>1. run' = Idle /\ report'.kind = kind
  BY DEF End
<1>2. DryRunHonest'
  BY <1>1 DEF DryRunHonest
<1>3. Typed /\ Promised /\ Quiet
  BY DEF Inv
<1>4. /\ today' \in Day /\ promise' \in SUBSET Outcome /\ settled' \in BOOLEAN
      /\ crashes' \in 0..MaxCrashes /\ \A p \in promise' : p = Expected
      /\ settled' => /\ \A x \in Plan : Present(x)
                     /\ \A t \in Names : master[<<Types, t>>] = "active" <=> t \in OnTypes
  BY <1>3 DEF Typed, Promised, Quiet
<1>. QED
  BY <1>1, <1>2, <1>4, Rest

(* The earning types are looked for, and the first section begins. *)
LEMMA CheckInv == ASSUME Inv, CheckEarningTypes PROVE Inv'
<1>1. run.pc = "check" /\ UNCHANGED <<sheet, master, entries, today, promise, edits, crashes, settled>>
  BY DEF CheckEarningTypes, db
<1>2. ASSUME End("invalid") PROVE Inv'
  BY <1>1, <1>2, StopInv
<1>3. ASSUME run' = [run EXCEPT !.pc = "write", !.list = Listed], UNCHANGED report PROVE Inv'
  <2>1. run \in Run /\ run.section = 1 /\ 1 \in Section
    BY <1>1 DEF Inv, Typed, Running, Section
  <2>2. run' = [run EXCEPT !.pc = "write", !.list = Listed, !.section = 1]
    BY <1>3, <2>1 DEF Run
  <2>3. \A j \in Section : ~(j < 1)
    BY DEF Section
  <2>4. ~(1 > 4)
    OBVIOUS
  <2>. QED
    BY <1>1, <1>3, <2>1, <2>2, <2>3, <2>4, NewSection
<1>. QED
  BY <1>2, <1>3 DEF CheckEarningTypes

(* What a section leaves when no row of it remains. *)
LEMMA Passed ==
    ASSUME Inv, SectionEnded
    PROVE  /\ \A x \in Plan, j \in Section :
                j < run.section + 1 /\ x.tab \in Sections[j] => x.line \in Written
           /\ Alone /\ run.section >= 4 => ActiveOff \subseteq run.archived
<1>0. Typed /\ Running /\ Same /\ run.pc = "write" /\ Remaining = {} /\ run.section \in Section
  BY DEF Inv, SectionEnded, Typed, Run
<1>1. ASSUME NEW x \in Plan, NEW j \in Section, j < run.section + 1, x.tab \in Sections[j]
      PROVE  x.line \in Written
  <2>1. CASE j < run.section
    BY <1>0, <1>1, <2>1 DEF Running
  <2>2. CASE j = run.section
    BY <1>0, <1>1, <2>2 DEF Remaining, InTab
  <2>. QED
    BY <1>0, <1>1, <2>1, <2>2 DEF Section
<1>2. ASSUME Alone, run.section = 4, NEW t \in ActiveOff, t \notin run.archived PROVE FALSE
  <2>1. t \in OffTypes /\ master[<<Types, t>>] = "active"
    BY <1>2 DEF ActiveOff
  <2>2. run.list.master[<<Types, t>>] = "active"
    BY <1>0, <1>2, <2>1 DEF Same
  <2>3. t \in OffSheet
    BY <2>1, <2>2, TypesOn
  <2>. QED
    BY <1>2, <2>3 DEF SectionEnded
<1>3. Alone /\ run.section > 4 => ActiveOff \subseteq run.archived
  BY <1>0 DEF Same
<1>4. run.section >= 4 => run.section = 4 \/ run.section > 4
  BY <1>0 DEF Section
<1>. QED
  BY <1>1, <1>2, <1>3, <1>4

(* The next section is listed. *)
LEMMA NextSectionInv == ASSUME Inv, NextSection PROVE Inv'
<1>1. /\ SectionEnded /\ run.pc = "write" /\ run.section < 6
      /\ run' = [run EXCEPT !.list = Listed, !.section = @ + 1]
      /\ UNCHANGED <<sheet, master, entries, today, report, promise, edits, crashes, settled>>
  BY DEF NextSection, SectionEnded, db
<1>2. run \in Run /\ run.section \in Section
  BY DEF Inv, Typed, Run
<1>3. PICK i \in Section : i = run.section + 1
  BY <1>1, <1>2 DEF Section
<1>4. run' = [run EXCEPT !.pc = "write", !.list = Listed, !.section = i]
  BY <1>1, <1>2, <1>3 DEF Run
<1>5. \A x \in Plan, j \in Section : j < i /\ x.tab \in Sections[j] => x.line \in Written
  BY <1>1, <1>3, Passed
<1>6. i > 4 => run.section >= 4
  BY <1>2, <1>3 DEF Section
<1>7. Alone /\ i > 4 => ActiveOff \subseteq run.archived
  BY <1>1, <1>6, Passed
<1>. QED
  BY <1>1, <1>4, <1>5, <1>7, NewSection

(* A load that got to its end did what was foretold, and what is on the    *)
(* sheet is there.                                                         *)
LEMMA Finished ==
    ASSUME Inv, SectionEnded, run.section = 6, Alone
    PROVE  /\ Foretold = Announced
           /\ ~run.dry => /\ \A x \in Plan : Present(x)
                          /\ \A t \in Names : master[<<Types, t>>] = "active" <=> t \in OnTypes
<1>0. Typed /\ Done
  BY DEF Inv
<1>1. ASSUME NEW x \in Plan PROVE x.line \in Written
  <2>1. PICK j \in Section : x.tab \in Sections[j]
    BY <1>0, RowParts, TabSections DEF Typed
  <2>2. j < run.section + 1
    BY DEF Section
  <2>. QED
    BY <2>1, <2>2, Passed
<1>2. ActiveOff \subseteq run.archived
  BY Passed
<1>3. Foretold = Announced
  <2>1. {x.line : x \in {y \in Missing : y.line \notin Written}} = {}
    BY <1>1 DEF Missing
  <2>2. run.created \cup {} = run.created /\ run.archived \cup ActiveOff = run.archived
    BY <1>2
  <2>. QED
    BY <2>1, <2>2 DEF Foretold, Announced
<1>4. ASSUME ~run.dry, NEW t \in Names PROVE master[<<Types, t>>] = "active" <=> t \in OnTypes
  <2>1. CASE t \in OnTypes
    <3>1. PICK x \in InTab({Types}) : x.key = t
      BY <2>1 DEF OnTypes
    <3>2. x \in Plan /\ x.tab = Types
      BY DEF InTab
    <3>. QED
      BY <1>0, <1>1, <1>4, <2>1, <3>1, <3>2 DEF Done
  <2>2. CASE t \notin OnTypes
    <3>1. master[<<Types, t>>] = "active" => t \in ActiveOff
      BY <1>4, <2>2 DEF ActiveOff, OffTypes
    <3>. QED
      BY <1>0, <1>2, <1>4, <2>2, <3>1 DEF Done
  <2>. QED
    BY <2>1, <2>2
<1>. QED
  BY <1>0, <1>1, <1>3, <1>4 DEF Done

(* The load ends. *)
LEMMA FinishInv == ASSUME Inv, Finish PROVE Inv'
<1>1. /\ SectionEnded /\ run.pc = "write" /\ run.section = 6 /\ End("done")
      /\ promise' = (IF run.dry /\ run.since = edits THEN {Announced} ELSE {})
      /\ settled' = (IF run.dry THEN settled ELSE run.since = edits)
      /\ UNCHANGED <<sheet, master, entries, today, edits, crashes>>
  BY DEF Finish, SectionEnded, db
<1>2. /\ run' = Idle
      /\ report' = [kind |-> "done", dry |-> run.dry, announced |-> Announced,
                    promise |-> run.promise, alone |-> run.since = edits]
  BY <1>1 DEF End
<1>3. Typed /\ Promised /\ Quiet /\ run \in Run
  BY DEF Inv, Typed
<1>4. Alone <=> run.since = edits
  BY <1>1 DEF Alone
<1>5. Announced \in Outcome
  BY <1>3 DEF Announced, Outcome, Run
<1>6. \A p \in promise' : p = Expected
  BY <1>1, <1>3, <1>4, Finished DEF Promised
<1>7. settled' => /\ \A x \in Plan : Present(x)
                  /\ \A t \in Names : master[<<Types, t>>] = "active" <=> t \in OnTypes
  BY <1>1, <1>3, <1>4, Finished DEF Quiet
<1>8. DryRunHonest'
  <2>1. Alone => \A p \in run.promise : p = Announced
    BY <1>1, <1>3, Finished DEF Promised
  <2>. QED
    BY <1>2, <1>4, <2>1 DEF DryRunHonest
<1>9. /\ today' \in Day /\ promise' \in SUBSET Outcome /\ settled' \in BOOLEAN
      /\ crashes' \in 0..MaxCrashes
  BY <1>1, <1>3, <1>5 DEF Typed
<1>. QED
  BY <1>1, <1>2, <1>6, <1>7, <1>8, <1>9, Rest

(* The service refuses a row. *)
LEMMA RefuseInv == ASSUME Inv, NEW x \in Plan, Refuse(x) PROVE Inv'
<1>1. End("refused") /\ UNCHANGED <<sheet, master, entries, today, promise, edits, crashes, settled>>
  BY DEF Refuse, db
<1>. QED
  BY <1>1, StopInv

-----------------------------------------------------------------------------
(* A row is written.                                                       *)

(* A row found or created is not looked at again. *)
LEMMA RowWritten ==
    ASSUME Typed, Running, run.pc = "write", NEW x \in Remaining, UNCHANGED <<sheet, edits>>,
           \/ run' = [run EXCEPT !.existing = @ \cup {x.line}]
           \/ run' = [run EXCEPT !.created = @ \cup {x.line}]
    PROVE  /\ run' \in Run /\ run'.pc = "write" /\ run'.list = run.list /\ run'.dry = run.dry
           /\ run'.section = run.section /\ run'.archived = run.archived
           /\ run'.since = run.since /\ run'.promise = run.promise
           /\ Written' = Written \cup {x.line} /\ x.line \notin Written
           /\ Plan' = Plan /\ OnTypes' = OnTypes /\ OffTypes' = OffTypes
           /\ Remaining' = {y \in Remaining : y # x}
           /\ Alone' <=> Alone
           /\ Running' \/ promise' # promise
<1>0. x \in Plan /\ x.line \notin Written /\ run \in Run
  BY RemainingRow DEF Typed
<1>1. x.line \in Nat /\ \A y \in Plan : x.line = y.line => x = y
  BY <1>0, RowParts DEF Typed
<1>2. /\ run' \in Run /\ run'.pc = "write" /\ run'.list = run.list /\ run'.dry = run.dry
      /\ run'.section = run.section /\ run'.archived = run.archived
      /\ run'.since = run.since /\ run'.promise = run.promise
  BY <1>0, <1>1 DEF Run
<1>3. \/ run'.existing = run.existing \cup {x.line} /\ run'.created = run.created
      \/ run'.created = run.created \cup {x.line} /\ run'.existing = run.existing
  BY <1>0, <1>1 DEF Run
<1>4. Written' = Written \cup {x.line}
  BY <1>3 DEF Written
<1>5. Plan' = Plan /\ OnTypes' = OnTypes /\ OffTypes' = OffTypes
  BY DEF Plan, InTab, OnTypes, OffTypes
<1>6. Remaining' = {y \in Remaining : y # x}
  BY <1>0, <1>1, <1>2, <1>4, <1>5 DEF Remaining, InTab
<1>7. Alone' <=> Alone
  BY <1>2 DEF Alone
<1>8. ASSUME promise' = promise PROVE Running'
  <2>1. IsValid(sheet)' <=> IsValid(sheet)
    BY DEF IsValid, IsWrong, IsRepeated, ToImport, Unresolved, HasTarget, Referable
  <2>2. run'.created \cap run'.existing = {}
    BY <1>0, <1>3 DEF Running, Written
  <2>. QED
    BY <1>2, <1>4, <1>5, <1>8, <2>1, <2>2 DEF Running
<1>. QED
  BY <1>0, <1>2, <1>4, <1>5, <1>6, <1>7, <1>8

(* A row that is there is left, or used again. *)
LEMMA KeepInv == ASSUME KeysApart, Inv, NEW x \in Plan, Keep(x) PROVE Inv'
<1>0. /\ run.pc = "write" /\ x \in Remaining /\ Found(x)
      /\ run' = [run EXCEPT !.existing = @ \cup {x.line}]
      /\ UNCHANGED <<sheet, entries, today, report, promise, edits, crashes, settled>>
  BY DEF Keep, IsNext
<1>1. Typed /\ Dated /\ Running /\ Fresh /\ Same /\ Done /\ Promised /\ Quiet /\ DryRunHonest
  BY DEF Inv
<1>2. /\ run' \in Run /\ run'.pc = "write" /\ run'.list = run.list /\ run'.dry = run.dry
      /\ run'.section = run.section /\ run'.archived = run.archived
      /\ run'.since = run.since /\ run'.promise = run.promise
      /\ Written' = Written \cup {x.line} /\ x.line \notin Written
      /\ Plan' = Plan /\ OnTypes' = OnTypes /\ OffTypes' = OffTypes
      /\ Remaining' = {y \in Remaining : y # x}
      /\ Alone' <=> Alone
      /\ Running'
  BY <1>0, <1>1, RowWritten
<1>3. \/ master' = master
      \/ /\ x.tab = Types /\ ~run.dry /\ run.list.master[<<Types, x.key>>] = "archived"
         /\ master' = [master EXCEPT ![<<Types, x.key>>] = "active"]
  BY DEF Keep, Types
<1>4. x.tab = Types => <<Types, x.key>> \in Record /\ x.key \in OnTypes
  BY <1>1, RowParts, TypesOn, TabSections DEF Typed
<1>5. /\ master' \in [Record -> State]
      /\ \A r \in Record : master'[r] = master[r] \/ (r = <<Types, x.key>> /\ x.tab = Types /\ master'[r] = "active")
  <2>1. master \in [Record -> State] /\ "active" \in State
    BY <1>1 DEF Typed, State
  <2>. QED
    BY <1>3, <1>4, <2>1
<1>6. Typed'
  BY <1>0, <1>1, <1>2, <1>5 DEF Typed
<1>7. Dated'
  BY <1>0, <1>1, <1>2 DEF Dated
<1>8. Fresh'
  BY <1>0, <1>1, <1>2 DEF Fresh
<1>9. \A t \in OffTypes : master'[<<Types, t>>] = master[<<Types, t>>]
  <2>1. ASSUME NEW t \in OffTypes PROVE master'[<<Types, t>>] = master[<<Types, t>>]
    <3>1. t # x.key \/ x.tab # Types
      BY <1>4 DEF OffTypes
    <3>2. <<Types, t>> \in Record
      BY TabSections DEF OffTypes, Record
    <3>3. <<Types, t>> = <<Types, x.key>> => t = x.key
      OBVIOUS
    <3>. QED
      BY <1>5, <3>1, <3>2, <3>3
  <2>. QED
    BY <2>1
<1>10. ActiveOff' = ActiveOff
  BY <1>2, <1>9 DEF ActiveOff
<1>11. Alone => SameRow(x)
  BY <1>0, <1>1 DEF Same
<1>12. ASSUME Alone, NEW y \in Plan PROVE Present(y)' <=> Present(y)
  <2>1. CASE y.tab \notin Catalogue
    BY <1>0, <2>1 DEF Present
  <2>2. CASE y.tab \in Catalogue
    <3>1. <<y.tab, y.key>> \in Record
      BY <1>1, <2>2, RowParts DEF Typed
    <3>2. x.tab = Types /\ run.list.master[<<Types, x.key>>] = "archived" => master[<<Types, x.key>>] = "archived"
      BY <1>11, <1>12, TabSections DEF SameRow
    <3>3. master'[<<y.tab, y.key>>] # "absent" <=> master[<<y.tab, y.key>>] # "absent"
      BY <1>1, <1>3, <1>4, <3>1, <3>2 DEF Typed
    <3>. QED
      BY <2>2, <3>3 DEF Present
  <2>. QED
    BY <2>1, <2>2
<1>13. ASSUME Alone, NEW y \in Remaining, y # x PROVE SameRow(y)'
  <2>1. SameRow(y) /\ y \in Plan
    BY <1>0, <1>1, <1>13, RemainingRow DEF Same
  <2>2. CASE y.tab \notin Catalogue
    BY <1>0, <1>2, <2>1, <2>2 DEF SameRow
  <2>3. CASE y.tab \in Catalogue
    <3>1. <<y.tab, y.key>> \in Record
      BY <1>1, <2>1, <2>3, RowParts DEF Typed
    <3>2. x.tab = y.tab => x.key # y.key
      BY <1>0, <1>1, <1>13, <2>1, DifferentKeys DEF Running, Typed
    <3>3. <<y.tab, y.key>> = <<Types, x.key>> => y.tab = Types /\ y.key = x.key
      OBVIOUS
    <3>4. master'[<<y.tab, y.key>>] = master[<<y.tab, y.key>>]
      BY <1>5, <3>1, <3>2, <3>3
    <3>. QED
      BY <1>2, <2>1, <2>3, <3>4 DEF SameRow
  <2>. QED
    BY <2>2, <2>3
<1>14. Same'
  BY <1>0, <1>1, <1>2, <1>9, <1>10, <1>13 DEF Same
<1>15. Alone => Present(x) /\ x \notin Missing /\ Missing' = Missing /\ Expected' = Expected
  <2>1. Alone => Present(x)
    BY <1>0, <1>1, <1>11, SameFound
  <2>2. Alone => Missing' = Missing
    BY <1>2, <1>12 DEF Missing
  <2>. QED
    BY <1>10, <2>1, <2>2 DEF Missing, Expected
<1>16. Done'
  <2>. SUFFICES ASSUME Alone, ~run.dry
                PROVE  /\ \A y \in Plan : y.line \in Written' =>
                            Present(y)' /\ (y.tab = Types => master'[<<Types, y.key>>] = "active")
                       /\ \A t \in run.archived : master'[<<Types, t>>] # "active"
    BY <1>2 DEF Done
  <2>1. ASSUME NEW y \in Plan, y.line \in Written
        PROVE  Present(y)' /\ (y.tab = Types => master'[<<Types, y.key>>] = "active")
    <3>1. Present(y) /\ (y.tab = Types => master[<<Types, y.key>>] = "active")
      BY <1>1, <2>1 DEF Done
    <3>2. y.tab = Types => <<Types, y.key>> \in Record
      BY <1>1, RowParts, TabSections DEF Typed
    <3>. QED
      BY <1>5, <1>12, <3>1, <3>2
  <2>2. x.tab = Types => master'[<<Types, x.key>>] = "active"
    <3>1. ASSUME x.tab = Types PROVE master[<<Types, x.key>>] = run.list.master[<<Types, x.key>>]
      BY <1>11, <3>1, TabSections DEF SameRow
    <3>2. ASSUME x.tab = Types PROVE run.list.master[<<Types, x.key>>] # "absent"
      BY <1>0, <3>2, TabSections DEF Found
    <3>3. x.tab = Types => master[<<Types, x.key>>] \in State
      BY <1>1, <1>4 DEF Typed
    <3>4. ASSUME x.tab = Types, run.list.master[<<Types, x.key>>] = "archived"
          PROVE  master'[<<Types, x.key>>] = "active"
      <4>1. master' = [master EXCEPT ![<<Types, x.key>>] = "active"]
        BY <3>4 DEF Keep, Types
      <4>. QED
        BY <1>1, <1>4, <3>4, <4>1 DEF Typed
    <3>. QED
      BY <1>4, <1>5, <3>1, <3>2, <3>3, <3>4 DEF State
  <2>3. Present(x)'
    BY <1>12, <1>15
  <2>4. \A y \in Plan : x.line = y.line => x = y
    BY <1>1, RowParts DEF Typed
  <2>5. ASSUME NEW t \in run.archived PROVE master'[<<Types, t>>] # "active"
    <3>1. t \in OffTypes /\ master[<<Types, t>>] # "active"
      BY <1>1 DEF Running, Done
    <3>. QED
      BY <1>9, <3>1
  <2>. QED
    BY <1>2, <2>1, <2>2, <2>3, <2>4, <2>5
<1>17. Promised'
  <2>1. promise = {} /\ promise' = {}
    BY <1>0, <1>1 DEF Running
  <2>2. ASSUME Alone PROVE Foretold' = Foretold
    <3>1. run'.created = run.created
      BY <1>0, <1>1 DEF Typed, Run
    <3>2. {y \in Missing : y.line \notin Written \cup {x.line}} = {y \in Missing : y.line \notin Written}
      <4>1. \A y \in Missing : y \in Plan /\ y # x
        BY <1>15, <2>2 DEF Missing
      <4>2. \A y \in Plan : x.line = y.line => x = y
        BY <1>1, RowParts DEF Typed
      <4>. QED
        BY <4>1, <4>2
    <3>. QED
      BY <1>2, <1>10, <1>15, <2>2, <3>1, <3>2 DEF Foretold
  <2>. QED
    BY <1>1, <1>2, <1>15, <2>1, <2>2 DEF Promised
<1>18. Quiet'
  <2>. SUFFICES ASSUME settled PROVE Quiet'
    BY <1>0 DEF Quiet
  <2>1. x.tab = Types => run.list.master[<<Types, x.key>>] = "active"
    BY <1>0, <1>1, <1>4 DEF Quiet, OnTypes, Typed, Record
  <2>2. master' = master
    BY <1>3, <2>1
  <2>3. \A y \in Plan : (Found(y)' <=> Found(y)) /\ (Present(y)' <=> Present(y))
    BY <1>0, <1>2, <2>2 DEF Found, Present
  <2>. QED
    BY <1>0, <1>1, <1>2, <2>2, <2>3 DEF Quiet
<1>19. DryRunHonest'
  BY <1>0, <1>1 DEF DryRunHonest
<1>. QED
  BY <1>2, <1>6, <1>7, <1>8, <1>14, <1>16, <1>17, <1>18, <1>19 DEF Inv

(* A row that is not there: nothing of it is. *)
LEMMA NotThere ==
    ASSUME Typed, Dated, Fresh, run.pc = "write", NEW x \in Remaining, ~Found(x), x.tab \notin Catalogue,
           NEW d \in Day
    PROVE  entries[<<x.key, d>>] = 0
<1>1. x \in Plan /\ x.key \in Names
  BY RemainingRow, RowParts DEF Typed
<1>2. entries[<<x.key, d>>] \in 0..1
  BY <1>1 DEF Typed
<1>3. ASSUME entries[<<x.key, d>>] > 0 PROVE FALSE
  <2>1. <<x.key, d>> \in run.list.entries
    BY <1>3 DEF Fresh
  <2>2. d = 0 \/ x.tab = Statements
    BY <1>1, <1>3 DEF Dated
  <2>. QED
    BY <2>1, <2>2 DEF Found, Statements
<1>. QED
  BY <1>2, <1>3

(* What the insert of a row changes: the row is there, and no other one of *)
(* the plan is touched.                                                    *)
LEMMA Inserted ==
    ASSUME KeysApart, Typed, Dated, Running, Fresh, run.pc = "write", NEW x \in Remaining, ~Found(x),
           Insert(x), sheet' = sheet, today' = today
    PROVE  /\ master' \in [Record -> State] /\ entries' \in [Names \X Day -> 0..1]
           /\ Present(x)' /\ (x.tab = Types => master'[<<Types, x.key>>] = "active")
           /\ \A t \in OffTypes : master'[<<Types, t>>] = master[<<Types, t>>]
           /\ \A y \in Plan : y # x =>
                /\ y.tab \in Catalogue => master'[<<y.tab, y.key>>] = master[<<y.tab, y.key>>]
                /\ y.tab \notin Catalogue =>
                     \A d \in Day : entries'[<<y.key, d>>] = entries[<<y.key, d>>]
           /\ x.tab \notin Catalogue =>
                \A d, e \in Day : /\ entries'[<<x.key, d>>] > 0 /\ entries'[<<x.key, e>>] > 0 => d = e
                                  /\ entries'[<<x.key, d>>] > 0 /\ x.tab # Statements => d = 0
<1>1. x \in Plan /\ x.key \in Names /\ (x.tab \in Catalogue => <<x.tab, x.key>> \in Record)
  BY RemainingRow, RowParts DEF Typed
<1>2. \A y \in Plan : y # x =>
        /\ x.tab = y.tab => x.key # y.key
        /\ x.tab \notin Catalogue /\ y.tab \notin Catalogue => x.key # y.key
  BY <1>1, DifferentKeys DEF Typed, Running
<1>3. \A y \in Plan : y.key \in Names /\ (y.tab \in Catalogue => <<y.tab, y.key>> \in Record)
  BY RowParts DEF Typed
<1>4. CASE x.tab \in Catalogue
  <2>1. master' = [master EXCEPT ![<<x.tab, x.key>>] = "active"] /\ entries' = entries
    BY <1>4 DEF Insert
  <2>2. /\ master' \in [Record -> State] /\ master'[<<x.tab, x.key>>] = "active"
        /\ \A r \in Record : r # <<x.tab, x.key>> => master'[r] = master[r]
    BY <1>1, <1>4, <2>1 DEF Typed, State
  <2>3. ASSUME NEW y \in Plan, y # x, y.tab \in Catalogue
        PROVE  master'[<<y.tab, y.key>>] = master[<<y.tab, y.key>>]
    <3>1. <<y.tab, y.key>> \in Record /\ (x.tab = y.tab => x.key # y.key)
      BY <1>2, <1>3, <2>3
    <3>2. <<y.tab, y.key>> = <<x.tab, x.key>> => y.tab = x.tab /\ y.key = x.key
      OBVIOUS
    <3>. QED
      BY <2>2, <3>1, <3>2
  <2>4. ASSUME NEW t \in OffTypes PROVE master'[<<Types, t>>] = master[<<Types, t>>]
    <3>1. <<Types, t>> \in Record
      BY TabSections DEF OffTypes, Record
    <3>2. <<Types, t>> = <<x.tab, x.key>> => x.tab = Types /\ x.key = t
      OBVIOUS
    <3>3. x.tab = Types => x.key # t
      BY <1>1, TypesOn DEF OffTypes
    <3>. QED
      BY <2>2, <3>1, <3>2, <3>3
  <2>5. Present(x)'
    BY <1>4, <2>2 DEF Present
  <2>. QED
    BY <1>4, <2>1, <2>2, <2>3, <2>4, <2>5 DEF Typed
<1>5. CASE x.tab \notin Catalogue
  <2>1. PICK o \in Day : o = IF x.tab = Statements THEN today ELSE 0
    BY InitialLoadAssumption DEF Typed, Day
  <2>2. entries' = [entries EXCEPT ![<<x.key, o>>] = @ + 1] /\ master' = master
    BY <1>5, <2>1 DEF Insert, Statements
  <2>3. \A d \in Day : entries[<<x.key, d>>] = 0 /\ <<x.key, d>> \in Names \X Day
    BY <1>1, <1>5, NotThere
  <2>4. /\ entries' \in [Names \X Day -> 0..1] /\ entries'[<<x.key, o>>] = 1
        /\ \A e \in Names \X Day : e # <<x.key, o>> => entries'[e] = entries[e]
    <3>1. entries[<<x.key, o>>] + 1 = 1 /\ 1 \in 0..1
      BY <2>3
    <3>. QED
      BY <2>2, <2>3, <3>1 DEF Typed
  <2>5. ASSUME NEW y \in Plan, y # x, y.tab \notin Catalogue, NEW d \in Day
        PROVE  entries'[<<y.key, d>>] = entries[<<y.key, d>>]
    <3>1. y.key # x.key /\ <<y.key, d>> \in Names \X Day
      BY <1>2, <1>3, <1>5, <2>5
    <3>2. <<y.key, d>> = <<x.key, o>> => y.key = x.key
      OBVIOUS
    <3>. QED
      BY <2>4, <3>1, <3>2
  <2>6. ASSUME NEW d \in Day, entries'[<<x.key, d>>] > 0 PROVE d = o
    <3>1. <<x.key, d>> = <<x.key, o>> => d = o
      OBVIOUS
    <3>2. <<x.key, d>> # <<x.key, o>> => entries'[<<x.key, d>>] = 0
      BY <2>3, <2>4
    <3>. QED
      BY <2>6, <3>1, <3>2
  <2>7. Present(x)'
    <3>1. entries'[<<x.key, o>>] > 0
      BY <2>4
    <3>. QED
      BY <1>5, <3>1 DEF Present
  <2>8. \A d, e \in Day : /\ entries'[<<x.key, d>>] > 0 /\ entries'[<<x.key, e>>] > 0 => d = e
                          /\ entries'[<<x.key, d>>] > 0 /\ x.tab # Statements => d = 0
    BY <2>1, <2>6
  <2>9. x.tab # Types
    BY <1>5, TabSections
  <2>. QED
    BY <1>5, <2>1, <2>2, <2>4, <2>5, <2>6, <2>7, <2>8, <2>9 DEF Typed
<1>. QED
  BY <1>4, <1>5

(* A row that is not there is created, or counted by a dry run. *)
LEMMA CreateInv == ASSUME KeysApart, Inv, NEW x \in Plan, Create(x) PROVE Inv'
<1>0. /\ run.pc = "write" /\ x \in Remaining /\ ~Found(x)
      /\ run' = [run EXCEPT !.created = @ \cup {x.line}]
      /\ UNCHANGED <<sheet, today, report, promise, edits, crashes, settled>>
      /\ \/ run.dry /\ UNCHANGED <<master, entries>>
         \/ ~run.dry /\ Insert(x)
  BY DEF Create, IsNext, db
<1>1. Typed /\ Dated /\ Running /\ Fresh /\ Same /\ Done /\ Promised /\ Quiet /\ DryRunHonest
  BY DEF Inv
<1>2. /\ run' \in Run /\ run'.pc = "write" /\ run'.list = run.list /\ run'.dry = run.dry
      /\ run'.section = run.section /\ run'.archived = run.archived
      /\ run'.since = run.since /\ run'.promise = run.promise
      /\ Written' = Written \cup {x.line} /\ x.line \notin Written
      /\ Plan' = Plan /\ OnTypes' = OnTypes /\ OffTypes' = OffTypes
      /\ Remaining' = {y \in Remaining : y # x}
      /\ Alone' <=> Alone
      /\ Running'
  BY <1>0, <1>1, RowWritten
<1>3. run'.created = run.created \cup {x.line} /\ \A y \in Plan : x.line = y.line => x = y
  BY <1>0, <1>1, RowParts DEF Typed, Run
<1>4. ~settled
  BY <1>0, <1>1 DEF Quiet
<1>5. promise = {} /\ promise' = {}
  BY <1>0, <1>1 DEF Running
<1>6. Alone => ~Present(x) /\ x \in Missing
  BY <1>0, <1>1, SameFound DEF Same, Missing
<1>7. CASE run.dry
  <2>1. UNCHANGED <<sheet, master, entries>>
    BY <1>0, <1>7
  <2>2. Typed'
    BY <1>0, <1>1, <1>2, <2>1 DEF Typed
  <2>3. Dated'
    BY <1>1, <2>1, SameTables
  <2>4. Fresh'
    BY <1>0, <1>1, <1>2, <2>1 DEF Fresh
  <2>5. Same'
    <3>1. \A y : SameRow(y)' <=> SameRow(y)
      BY <1>2, <2>1 DEF SameRow
    <3>. QED
      BY <1>0, <1>1, <1>2, <2>1, <3>1, SameTables DEF Same
  <2>6. Done'
    BY <1>2, <1>7 DEF Done
  <2>7. ASSUME Alone PROVE Foretold' = Foretold
    <3>1. run'.created \cup {y.line : y \in {z \in Missing : z.line \notin Written'}}
            = run.created \cup {y.line : y \in {z \in Missing : z.line \notin Written}}
      <4>1. Missing \subseteq Plan
        BY DEF Missing
      <4>. QED
        BY <1>2, <1>3, <1>6, <2>7, <4>1
    <3>. QED
      BY <1>2, <2>1, <3>1, SameTables DEF Foretold
  <2>8. Promised'
    BY <1>1, <1>2, <1>5, <2>1, <2>7, SameTables DEF Promised
  <2>9. Quiet'
    BY <1>0, <1>4 DEF Quiet
  <2>10. DryRunHonest'
    BY <1>0, <1>1 DEF DryRunHonest
  <2>. QED
    BY <1>2, <2>2, <2>3, <2>4, <2>5, <2>6, <2>8, <2>9, <2>10 DEF Inv
<1>8. CASE ~run.dry
  <2>0. Insert(x)
    BY <1>0, <1>8
  <2>1. /\ master' \in [Record -> State] /\ entries' \in [Names \X Day -> 0..1]
        /\ Present(x)' /\ (x.tab = Types => master'[<<Types, x.key>>] = "active")
        /\ \A t \in OffTypes : master'[<<Types, t>>] = master[<<Types, t>>]
        /\ \A y \in Plan : y # x =>
             /\ y.tab \in Catalogue => master'[<<y.tab, y.key>>] = master[<<y.tab, y.key>>]
             /\ y.tab \notin Catalogue =>
                  \A d \in Day : entries'[<<y.key, d>>] = entries[<<y.key, d>>]
        /\ x.tab \notin Catalogue =>
             \A d, e \in Day : /\ entries'[<<x.key, d>>] > 0 /\ entries'[<<x.key, e>>] > 0 => d = e
                               /\ entries'[<<x.key, d>>] > 0 /\ x.tab # Statements => d = 0
    BY <1>0, <1>1, <2>0, Inserted
  <2>2. Typed'
    BY <1>0, <1>1, <1>2, <2>1 DEF Typed
  <2>3. Dated'
    <3>1. ASSUME NEW y \in Plan, y.tab \notin Catalogue, NEW d \in Day, NEW e \in Day
          PROVE  /\ entries'[<<y.key, d>>] > 0 /\ entries'[<<y.key, e>>] > 0 => d = e
                 /\ entries'[<<y.key, d>>] > 0 /\ y.tab # Statements => d = 0
      <4>1. CASE y = x
        BY <2>1, <3>1, <4>1
      <4>2. CASE y # x
        BY <1>1, <2>1, <3>1, <4>2 DEF Dated
      <4>. QED
        BY <4>1, <4>2
    <3>. QED
      BY <1>2, <3>1 DEF Dated
  <2>4. \A y \in Remaining' : y \in Remaining /\ y \in Plan /\ y # x
    BY <1>1, <1>2, RemainingRow
  <2>5. Fresh'
    <3>1. ASSUME NEW y \in Remaining', y.tab \notin Catalogue, NEW d \in Day, entries'[<<y.key, d>>] > 0
          PROVE  <<y.key, d>> \in run.list.entries
      <4>1. entries[<<y.key, d>>] > 0
        BY <2>1, <2>4, <3>1
      <4>. QED
        BY <1>0, <1>1, <2>4, <3>1, <4>1 DEF Fresh
    <3>. QED
      BY <1>2, <3>1 DEF Fresh
  <2>6. ASSUME Alone, NEW y \in Remaining' PROVE SameRow(y)'
    <3>1. SameRow(y)
      BY <1>0, <1>1, <2>4, <2>6 DEF Same
    <3>. QED
      BY <1>2, <2>1, <2>4, <2>6, <3>1 DEF SameRow
  <2>7. ActiveOff' = ActiveOff
    BY <1>2, <2>1 DEF ActiveOff
  <2>8. Same'
    BY <1>0, <1>1, <1>2, <2>1, <2>6, <2>7 DEF Same
  <2>9. ASSUME NEW y \in Plan, y # x PROVE Present(y)' <=> Present(y)
    BY <2>1, <2>9 DEF Present
  <2>10. Done'
    <3>. SUFFICES ASSUME Alone
                  PROVE  /\ \A y \in Plan : y.line \in Written' =>
                              Present(y)' /\ (y.tab = Types => master'[<<Types, y.key>>] = "active")
                         /\ \A t \in run.archived : master'[<<Types, t>>] # "active"
      BY <1>2 DEF Done
    <3>1. ASSUME NEW y \in Plan, y.line \in Written, y # x
          PROVE  Present(y)' /\ (y.tab = Types => master'[<<Types, y.key>>] = "active")
      <4>1. Present(y) /\ (y.tab = Types => master[<<Types, y.key>>] = "active")
        BY <1>1, <1>8, <3>1 DEF Done
      <4>. QED
        BY <2>1, <2>9, <3>1, <4>1, TabSections
    <3>2. ASSUME NEW t \in run.archived PROVE master'[<<Types, t>>] # "active"
      <4>1. t \in OffTypes /\ master[<<Types, t>>] # "active"
        BY <1>1, <1>8 DEF Running, Done
      <4>. QED
        BY <2>1, <4>1
    <3>. QED
      BY <1>2, <1>3, <2>1, <3>1, <3>2
  <2>11. ASSUME Alone PROVE Foretold' = Foretold
    <3>1. Missing' = Missing \ {x}
      BY <1>2, <2>1, <2>9 DEF Missing
    <3>2. run'.created \cup {y.line : y \in {z \in Missing' : z.line \notin Written'}}
            = run.created \cup {y.line : y \in {z \in Missing : z.line \notin Written}}
      <4>1. Missing \subseteq Plan
        BY DEF Missing
      <4>. QED
        BY <1>2, <1>3, <1>6, <2>11, <3>1, <4>1
    <3>. QED
      BY <1>2, <2>7, <3>2 DEF Foretold
  <2>12. Promised'
    BY <1>1, <1>2, <1>5, <1>8, <2>11 DEF Promised
  <2>13. Quiet' /\ DryRunHonest'
    BY <1>0, <1>1, <1>4 DEF Quiet, DryRunHonest
  <2>. QED
    BY <1>2, <2>2, <2>3, <2>5, <2>8, <2>10, <2>12, <2>13 DEF Inv
<1>. QED
  BY <1>7, <1>8

(* An expense type off the sheet is archived, or counted by a dry run. *)
LEMMA ArchiveInv == ASSUME Inv, NEW t \in Names, Archive(t) PROVE Inv'
<1>0. /\ run.pc = "write" /\ run.section = 4 /\ Remaining = {} /\ t \in OffSheet \ run.archived
      /\ run' = [run EXCEPT !.archived = @ \cup {t}]
      /\ master' = IF run.dry THEN master ELSE [master EXCEPT ![<<Types, t>>] = "archived"]
      /\ UNCHANGED <<sheet, entries, today, report, promise, edits, crashes, settled>>
  BY DEF Archive, Types
<1>1. Typed /\ Dated /\ Running /\ Same /\ Done /\ Promised /\ Quiet /\ DryRunHonest
  BY DEF Inv
<1>2. t \in OffTypes /\ t \notin run.archived /\ run.list.master[<<Types, t>>] = "active"
  BY <1>0, TypesOn
<1>3. ~settled
  BY <1>0, <1>1, <1>2 DEF Quiet, OffTypes
<1>4. /\ run' \in Run /\ run'.pc = "write" /\ run'.list = run.list /\ run'.dry = run.dry
      /\ run'.section = run.section /\ run'.archived = run.archived \cup {t}
      /\ run'.since = run.since /\ run'.promise = run.promise
      /\ run'.created = run.created /\ run'.existing = run.existing
  BY <1>0, <1>1 DEF Typed, Run
<1>5. /\ Plan' = Plan /\ OnTypes' = OnTypes /\ OffTypes' = OffTypes
      /\ Written' = Written /\ Remaining' = {} /\ (Alone' <=> Alone)
  BY <1>0, <1>4 DEF Plan, InTab, OnTypes, OffTypes, Written, Remaining, Alone
<1>6. <<Types, t>> \in Record
  BY <1>2, TabSections DEF OffTypes, Record
<1>7. master' \in [Record -> State] /\ \A r \in Record : r # <<Types, t>> => master'[r] = master[r]
  BY <1>0, <1>1, <1>6 DEF Typed, State
<1>8. ASSUME Alone PROVE master[<<Types, t>>] = "active" /\ t \in ActiveOff
  BY <1>0, <1>1, <1>2, <1>8 DEF Same, ActiveOff
<1>9. Typed'
  BY <1>0, <1>1, <1>4, <1>7 DEF Typed
<1>10. Dated'
  BY <1>0, <1>1, <1>5 DEF Dated
<1>11. Running'
  <2>1. IsValid(sheet)' <=> IsValid(sheet)
    BY <1>0 DEF IsValid, IsWrong, IsRepeated, ToImport, Unresolved, HasTarget, Referable
  <2>. QED
    BY <1>0, <1>1, <1>2, <1>4, <1>5, <2>1 DEF Running
<1>12. Fresh'
  BY <1>5 DEF Fresh
<1>13. ASSUME NEW u \in Names, u # t PROVE master'[<<Types, u>>] = master[<<Types, u>>]
  <2>1. <<Types, u>> \in Record /\ (<<Types, u>> = <<Types, t>> => u = t)
    BY TabSections DEF Record
  <2>. QED
    BY <1>7, <1>13, <2>1
<1>14. Same'
  <2>1. ~(4 > 4)
    OBVIOUS
  <2>2. \A u \in OffTypes \ (run.archived \cup {t}) : u \in Names /\ u # t /\ u \in OffTypes \ run.archived
    BY DEF OffTypes
  <2>. QED
    BY <1>0, <1>1, <1>4, <1>5, <1>13, <2>1, <2>2 DEF Same
<1>15. ASSUME Alone, NEW y \in Plan PROVE Present(y)' <=> Present(y)
  <2>1. CASE y.tab \notin Catalogue
    BY <1>0, <2>1 DEF Present
  <2>2. CASE y.tab \in Catalogue
    <3>1. <<y.tab, y.key>> \in Record
      BY <1>1, <2>2, RowParts DEF Typed
    <3>2. <<y.tab, y.key>> = <<Types, t>> => y.tab = Types /\ y.key = t
      OBVIOUS
    <3>3. y.tab = Types => y.key # t
      BY <1>2, TypesOn DEF OffTypes
    <3>. QED
      BY <1>7, <2>2, <3>1, <3>2, <3>3 DEF Present
  <2>. QED
    BY <2>1, <2>2
<1>16. Done'
  <2>. SUFFICES ASSUME Alone, ~run.dry
                PROVE  /\ \A y \in Plan : y.line \in Written =>
                            Present(y)' /\ (y.tab = Types => master'[<<Types, y.key>>] = "active")
                       /\ \A u \in run.archived \cup {t} : master'[<<Types, u>>] # "active"
    BY <1>4, <1>5 DEF Done
  <2>1. ASSUME NEW y \in Plan, y.line \in Written
        PROVE  Present(y)' /\ (y.tab = Types => master'[<<Types, y.key>>] = "active")
    <3>1. Present(y) /\ (y.tab = Types => master[<<Types, y.key>>] = "active")
      BY <1>1, <2>1 DEF Done
    <3>2. y.tab = Types => y.key # t /\ y.key \in Names
      BY <1>1, <1>2, RowParts, TypesOn DEF OffTypes, Typed
    <3>. QED
      BY <1>13, <1>15, <3>1, <3>2
  <2>2. ASSUME NEW u \in run.archived PROVE master'[<<Types, u>>] # "active"
    <3>1. u \in OffTypes /\ u # t /\ master[<<Types, u>>] # "active"
      BY <1>1, <1>2 DEF Running, Done
    <3>. QED
      BY <1>13, <3>1 DEF OffTypes
  <2>3. master'[<<Types, t>>] = "archived"
    BY <1>0, <1>1, <1>6 DEF Typed
  <2>. QED
    BY <2>1, <2>2, <2>3
<1>17. Promised'
  <2>1. promise = {} /\ promise' = {}
    BY <1>0, <1>1 DEF Running
  <2>2. ASSUME Alone PROVE Missing' = Missing
    BY <1>5, <1>15, <2>2 DEF Missing
  <2>3. ASSUME Alone PROVE (run.archived \cup {t}) \cup ActiveOff' = run.archived \cup ActiveOff
    <3>1. \A u \in OffTypes : u # t => (u \in ActiveOff' <=> u \in ActiveOff)
      BY <1>5, <1>13 DEF ActiveOff, OffTypes
    <3>2. ActiveOff \subseteq OffTypes /\ ActiveOff' \subseteq OffTypes
      BY <1>5 DEF ActiveOff
    <3>. QED
      BY <1>8, <2>3, <3>1, <3>2
  <2>4. ASSUME Alone PROVE Foretold' = Foretold
    BY <1>4, <1>5, <2>2, <2>3, <2>4 DEF Foretold
  <2>5. ASSUME Alone, run.dry PROVE Expected' = Expected
    <3>1. UNCHANGED <<sheet, master, entries>>
      BY <1>0, <2>5
    <3>. QED
      BY <3>1, SameTables
  <2>. QED
    BY <1>1, <1>4, <1>5, <2>1, <2>4, <2>5 DEF Promised
<1>18. Quiet' /\ DryRunHonest'
  BY <1>0, <1>1, <1>3 DEF Quiet, DryRunHonest
<1>. QED
  BY <1>9, <1>10, <1>11, <1>12, <1>14, <1>16, <1>17, <1>18 DEF Inv

-----------------------------------------------------------------------------
(* The theorems.                                                           *)

(* Nothing changes. *)
LEMMA StutterInv == ASSUME Inv, UNCHANGED vars PROVE Inv'
<1>1. UNCHANGED <<sheet, master, entries, today, run, report, promise, edits, crashes, settled>>
  BY DEF vars, db
<1>2. Typed' /\ Running'
  <2>1. IsValid(sheet)' <=> IsValid(sheet)
    BY <1>1 DEF IsValid, IsWrong, IsRepeated, ToImport, Unresolved, HasTarget, Referable
  <2>2. Written' = Written
    BY <1>1 DEF Written
  <2>. QED
    BY <1>1, <2>1, <2>2, SameTables DEF Inv, Typed, Running
<1>3. /\ Written' = Written /\ Remaining' = Remaining /\ (Alone' <=> Alone)
      /\ Foretold' = Foretold
      /\ \A x : (SameRow(x)' <=> SameRow(x)) /\ (Found(x)' <=> Found(x))
  <2>1. Written' = Written /\ (Alone' <=> Alone)
    BY <1>1 DEF Written, Alone
  <2>2. Remaining' = Remaining
    BY <1>1, <2>1 DEF Remaining, InTab, Plan
  <2>3. Foretold' = Foretold
    BY <1>1, <2>1, SameTables DEF Foretold
  <2>4. \A x : (SameRow(x)' <=> SameRow(x)) /\ (Found(x)' <=> Found(x))
    BY <1>1 DEF SameRow, Found
  <2>. QED
    BY <2>1, <2>2, <2>3, <2>4
<1>4. Fresh'
  BY <1>1, <1>3 DEF Fresh, Inv
<1>5. Same'
  BY <1>1, <1>3, SameTables DEF Same, Inv
<1>6. Done'
  BY <1>1, <1>3, SameTables DEF Done, Inv
<1>7. Promised'
  BY <1>1, <1>3, SameTables DEF Promised, Inv
<1>8. Quiet'
  BY <1>1, <1>3, SameTables DEF Quiet, Inv
<1>9. Dated' /\ DryRunHonest'
  BY <1>1, SameTables DEF DryRunHonest, Inv
<1>. QED
  BY <1>2, <1>4, <1>5, <1>6, <1>7, <1>8, <1>9 DEF Inv

(* The inductive invariant holds of every load. *)
THEOREM Invariance == ASSUME KeysApart PROVE Spec => []Inv
<1>1. Init => Inv
  BY InitInv
<1>2. Inv /\ [Next]_vars => Inv'
  <2>. SUFFICES ASSUME Inv, [Next]_vars PROVE Inv'
    OBVIOUS
  <2>1. ASSUME NEW dry \in BOOLEAN, Start(dry) PROVE Inv'
    BY <2>1, StartInv
  <2>2. ASSUME LoadStep PROVE Inv'
    <3>1. ASSUME NEW x \in Plan, Keep(x) \/ Create(x) \/ Refuse(x) PROVE Inv'
      BY <3>1, KeepInv, CreateInv, RefuseInv
    <3>2. ASSUME NEW t \in Names, Archive(t) PROVE Inv'
      BY <3>2, ArchiveInv
    <3>. QED
      BY <2>2, <3>1, <3>2, CheckInv, NextSectionInv, FinishInv DEF LoadStep
  <2>3. CASE UNCHANGED vars
    BY <2>3, StutterInv
  <2>. QED
    BY <2>1, <2>2, <2>3, CrashInv, MidnightInv, EditsInv DEF Next
<1>. QED
  BY <1>1, <1>2, PTL DEF Spec

(* INV-0019-03: types are kept and no entry is there twice, wherever the   *)
(* loads stopped, on whatever days they ran and whatever the users changed *)
(* meanwhile, when the rows of the sheet have keys of their own.           *)
THEOREM NothingTwice == ASSUME KeysApart PROVE Spec => []TypeOK
<1>1. Inv => TypeOK
  <2>. SUFFICES ASSUME Inv PROVE TypeOK
    OBVIOUS
  <2>1. Typed /\ Dated /\ Running
    BY DEF Inv
  <2>2. ASSUME NEW x \in InTab({"faturas_em_aberto"})
        PROVE  Cardinality({d \in Day : entries[<<x.key, d>>] > 0}) <= 1
    <3>1. x \in Plan /\ x.tab \notin Catalogue
      BY DEF InTab, Catalogue
    <3>. DEFINE D == {d \in Day : entries[<<x.key, d>>] > 0}
    <3>. SUFFICES Cardinality(D) <= 1
      OBVIOUS
    <3>2. \A d, e \in D : d = e
      BY <2>1, <3>1 DEF Dated
    <3>3. \A n : n = 0 \/ n = 1 => n <= 1
      OBVIOUS
    <3>4. CASE D = {}
      <4>1. Cardinality(D) = 0
        BY <3>4, FS_EmptySet, Zenon
      <4>. HIDE DEF D
      <4>. QED
        BY <3>3, <4>1
    <3>5. CASE D # {}
      <4>1. PICK d \in D : TRUE
        BY <3>5
      <4>2. D = {d}
        BY <3>2, <4>1
      <4>3. Cardinality({d}) = 1
        BY FS_Singleton
      <4>. HIDE DEF D
      <4>. QED
        BY <3>3, <4>2, <4>3
    <3>. QED
      BY <3>4, <3>5
  <2>3. run.pc \in {"idle", "check", "write"} /\ run.created \cap run.existing = {}
    BY <2>1 DEF Typed, Run, Running
  <2>. QED
    BY <2>1, <2>2, <2>3 DEF TypeOK, Typed
<1>. QED
  BY <1>1, Invariance, PTL

(* INV-0019-06, AC-0019-08: after a load everything of the sheet is there, *)
(* and its expense types are the active ones, until somebody edits.        *)
THEOREM EverythingLoaded == ASSUME KeysApart PROVE Spec => []Loaded
<1>1. Inv => Loaded
  <2>. SUFFICES ASSUME Inv, settled
                PROVE  /\ \A x \in Plan : Present(x)
                       /\ {t \in Names : master[<<"tipos_despesa", t>>] = "active"}
                            = {x.key : x \in InTab({"tipos_despesa"})}
    BY DEF Loaded
  <2>1. /\ \A x \in Plan : Present(x)
        /\ \A t \in Names : master[<<Types, t>>] = "active" <=> t \in OnTypes
    BY DEF Inv, Quiet
  <2>2. OnTypes \subseteq Names
    <3>1. \A x \in InTab({Types}) : x.key \in Names
      BY RowParts DEF InTab, Inv, Typed
    <3>. QED
      BY <3>1 DEF OnTypes
  <2>. QED
    BY <2>1, <2>2 DEF OnTypes, Types
<1>. QED
  BY <1>1, Invariance, PTL

(* AC-0019-03: a load does what the dry run before it announced, however   *)
(* its sections see each other's rows, if nobody edits in between.         *)
THEOREM DryRunKept == ASSUME KeysApart PROVE Spec => []DryRunHonest
<1>1. Inv => DryRunHonest
  BY DEF Inv
<1>. QED
  BY <1>1, Invariance, PTL
=============================================================================
