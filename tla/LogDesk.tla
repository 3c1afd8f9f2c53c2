------------------------------ MODULE LogDesk -------------------------------
(***************************************************************************)
(* The logging desk: LogPanel, LogManager and AdifExporter as MainWindow   *)
(* connects them, with the messages the pipeline decodes and the export   *)
(* dialog.                                                                 *)
(***************************************************************************)
EXTENDS LogPanel, LogManager, AdifExporter

CONSTANTS
  Stations,    \* station settings and mode: [parks, summit, modem]
  Dials,       \* what the log is told the frequency is
  Messages,    \* [from, to, signed, crcOk, tags]
  OldRows,     \* the database an earlier session left
  MaxContacts, \* contacts logged in the session
  MaxChanges   \* changes of the settings, the dial, the date and of logged
               \* contacts, and failed inserts

\* Rows of the current LogManager hold a pair of ADIF, older ones the mode
\* DIGITAL, or none, and the name of a modem or none (AdifExporter.cpp:60-68).
AdifPairs == {<<"PSK", "PSK31">>, <<"MFSK", "HAVEN-FSK">>}
HasItsMode(row) ==
  \/ <<row.mode, row.submode>> \in AdifPairs
  \/ row.mode \in {"", "DIGITAL"} /\ row.submode \in {"", "PSK31", "HAVEN-FSK"}

ASSUME DeskAssumption ==
  /\ MaxContacts \in Nat /\ MaxChanges \in Nat
  /\ \A m \in Messages : m.from \in Calls
  /\ OldRows \in Seq(ToSet(OldRows))
  /\ \A i \in DOMAIN OldRows : OldRows[i].id = i /\ HasItsMode(OldRows[i])

VARIABLES
  station,     \* loadStationInfo() and m_currentModeName
  today,       \* the UTC date
  dialog,      \* the export dialog: date option, preview, date of the preview
  clock,       \* contacts logged, which is the time of the next one
  changes,
  saved        \* history: id and time of what was saved and not deleted since

deskVars == <<station, today, dialog, clock, changes, saved>>
vars == <<panelVars, db, deskVars>>

Days == 1..2
Current == 0
Closed == [open |-> FALSE, option |-> Current, lines |-> {}, asOf |-> 1]

\* The operator can click: no box and no dialog is open.
Idle == box = NoBox /\ ~dialog.open
Running == box.kind # "crash"

-----------------------------------------------------------------------------
(***************************************************************************)
(* Receiving.  parseSenderCallsign() takes a call before DE that is not    *)
(* mine for the sender's, else the one after it; without DE, any call.     *)
(***************************************************************************)
Sender(m) ==
  IF m.to \in Calls THEN m.to ELSE IF m.signed THEN m.from ELSE None

\* onMessageReceived() of one decoded message.
Receive(m) ==
  /\ Running
  /\ IF m.crcOk THEN AutoPopulate(Sender(m), m.from, m.to = Me, m.tags)
                ELSE UNCHANGED panelVars
  /\ UNCHANGED <<db, deskVars>>

\* onElementClicked() of a call: populateField() asks before it replaces one.
ClickCall(c) ==
  /\ Idle
  /\ IF entry.call \in {None, c}
       THEN entry' = ByHand([entry EXCEPT !.call = c]) /\ UNCHANGED box
       ELSE box' = [kind |-> "replace", about |-> c] /\ UNCHANGED entry
  /\ UNCHANGED <<editing, contacts, frequency, db, deskVars>>

AnswerReplace(yes) ==
  /\ box.kind = "replace"
  /\ entry' = IF yes THEN ByHand([entry EXCEPT !.call = box.about]) ELSE entry
  /\ box' = NoBox
  /\ UNCHANGED <<editing, contacts, frequency, db, deskVars>>

\* What the operator does to the panel alone.
Operate ==
  /\ Idle
  /\ \/ OnClear \/ TypeData \/ OnDeleteEntry
     \/ \E c \in Calls : TypeCall(c) \/ PopulateData(c)
     \/ TypeCall(None)
     \/ \E row \in DOMAIN contacts :
          OnContactRowClicked(row) \/ OnContactRowDoubleClicked(row)
  /\ UNCHANGED <<db, deskVars>>

-----------------------------------------------------------------------------
\* The fields onLogIt() collects; nothing gives a new row its db_id.
Fields == [entry |-> entry, hz |-> frequency, day |-> today, time |-> clock + 1,
           dbId |-> 0]

\* contactLogged() and onContactLogged(), with the station settings that
\* onLogIt() collects too.
Log(works) ==
  /\ Idle
  /\ clock < MaxContacts
  /\ works \/ changes < MaxChanges
  /\ LogIt(Fields)
  /\ LogContact(Fields, station, works)
  /\ clock' = clock + 1
  /\ saved' = IF db.open /\ works
                THEN saved \union {[id |-> db.next, time |-> clock + 1]} ELSE saved
  /\ changes' = IF works THEN changes ELSE changes + 1
  /\ UNCHANGED <<station, today, dialog>>

\* contactUpdated(), whose slot asks for a db_id.
Update ==
  /\ Idle /\ changes < MaxChanges
  /\ UpdateIt(Fields)
  /\ IF Updated(Fields).dbId > 0
       THEN UpdateContact(Updated(Fields).dbId, Updated(Fields)) ELSE UNCHANGED db
  /\ changes' = changes + 1
  /\ UNCHANGED <<station, today, dialog, clock, saved>>

\* Mutant: the row's place in the table serves as its id.
DeleteByRow ==
  /\ ConfirmDelete
  /\ IF editing # 0
       THEN /\ DeleteContact(editing)
            /\ saved' = {s \in saved : s.time # contacts[editing].time}
       ELSE UNCHANGED <<db, saved>>
  /\ UNCHANGED <<station, today, dialog, clock, changes>>

\* The answer Yes to the box of onDeleteEntry(), contactDeleted() and its slot.
Delete ==
  /\ ConfirmDelete
  /\ IF editing # 0
       THEN /\ DeleteContact(contacts[editing].dbId)
            /\ saved' = {s \in saved : s.time # contacts[editing].time}
       ELSE UNCHANGED <<db, saved>>
  /\ UNCHANGED <<station, today, dialog, clock, changes>>

KeepRow == RefuseDelete /\ UNCHANGED <<db, deskVars>>

-----------------------------------------------------------------------------
(***************************************************************************)
(* The export dialog.  refreshPreview() runs when the dialog opens and     *)
(* when a date is chosen; onExport() asks for the date again.              *)
(***************************************************************************)
SelectedDate(option) == IF option = Current THEN today ELSE option

\* Mutant: summits also when there are parks.
PreviewOfAll(day) ==
  LET count == ContactCountForDate(day)
      Line(park, summit) == [park |-> park, summit |-> summit, count |-> count]
  IN IF count = 0 THEN {}
     ELSE {Line(<<p>>, <<>>) : p \in PotaRefsForDate(day)}
          \union {Line(<<>>, <<s>>) : s \in SotaRefsForDate(day)}
          \union {Line(<<>>, <<>>)}

\* refreshPreview(): a line for each file, all with the count of the date.
Preview(day) ==
  LET count == ContactCountForDate(day)
      Line(park, summit) == [park |-> park, summit |-> summit, count |-> count]
  IN IF count = 0 THEN {}
     ELSE {Line(<<p>>, <<>>) : p \in PotaRefsForDate(day)}
          \union (IF PotaRefsForDate(day) = {}
                    THEN {Line(<<>>, <<s>>) : s \in SotaRefsForDate(day)} ELSE {})
          \union {Line(<<>>, <<>>)}

Refreshed(option) ==
  [open |-> TRUE, option |-> option, lines |-> Preview(SelectedDate(option)),
   asOf |-> SelectedDate(option)]

Dialog(d) ==
  /\ dialog' = d
  /\ UNCHANGED <<panelVars, db, station, today, clock, changes, saved>>

OpenExport == Idle /\ db.open /\ Dialog(Refreshed(Current))

ChooseDate(option) == dialog.open /\ Dialog(Refreshed(option))

CancelExport == dialog.open /\ Dialog(Closed)

\* onExport() is enabled by a preview of files; it ends the dialog unless the
\* date has no contacts after all or no file could be written.
Export(written) ==
  /\ dialog.open /\ dialog.lines # {}
  /\ written \/ ContactsForDate(SelectedDate(dialog.option)) = <<>>
  /\ Dialog(IF written /\ ContactsForDate(SelectedDate(dialog.option)) # <<>>
              THEN Closed ELSE dialog)

-----------------------------------------------------------------------------
\* What changes around the desk: the settings and the mode, the frequency the
\* log is told, the date.
Change ==
  /\ Running /\ changes < MaxChanges
  /\ changes' = changes + 1
  /\ \/ /\ \E s \in Stations \ {station} : station' = s
        /\ Idle
        /\ UNCHANGED <<today, panelVars>>
     \/ /\ \E hz \in Dials \ {frequency} : SetFrequency(hz)
        /\ UNCHANGED <<station, today>>
     \/ /\ today' = today + 1 /\ today' \in Days
        /\ UNCHANGED <<station, panelVars>>
  /\ UNCHANGED <<db, dialog, clock, saved>>

Init ==
  /\ entry = Empty /\ editing = 0 /\ contacts = <<>> /\ box = NoBox
  /\ frequency = 0
  /\ db \in {Opened(OldRows), Unopened(OldRows)}
  /\ station \in Stations /\ today = 1 /\ dialog = Closed
  /\ clock = 0 /\ changes = 0 /\ saved = {}

Next ==
  \/ \E m \in Messages : Receive(m)
  \/ \E c \in Calls : ClickCall(c)
  \/ \E yes \in BOOLEAN : AnswerReplace(yes)
  \/ Operate
  \/ \E works \in BOOLEAN : Log(works)
  \/ Update \/ Delete \/ KeepRow
  \/ OpenExport \/ CancelExport
  \/ \E option \in {Current} \union Days : ChooseDate(option)
  \/ \E written \in BOOLEAN : Export(written)
  \/ Change

Spec == Init /\ [][Next]_vars

-----------------------------------------------------------------------------
(***************************************************************************)
(* The fields keep their types.  The row under edit is in the table: no    *)
(* deletion, log or message leaves m_editingRow past its end, where        *)
(* onLogIt() would write to a row that is not there.                       *)
(***************************************************************************)
TypeOK ==
  /\ entry \in Entries
  /\ Len(contacts) <= MaxRows
  /\ \A i \in DOMAIN contacts :
       contacts[i].entry \in Entries /\ contacts[i].day \in Days
  /\ editing \in 0..Len(contacts)
  /\ frequency \in Dials \union {0}
  /\ box.kind \in {"none", "replace", "delete", "crash"}
  /\ db.open \in BOOLEAN /\ db.next \in Len(OldRows) + 1..Len(OldRows) + 1 + clock
  /\ station \in Stations /\ today \in Days
  /\ dialog.option \in {Current} \union Days
  /\ clock \in 0..MaxContacts /\ changes \in 0..MaxChanges

(***************************************************************************)
(* DECISIONS.md, ADR-121: messages alone never make an entry, nor a logged *)
(* contact, of the fields of two stations.  An entry mixes them only if    *)
(* the operator put them there or a message was taken for somebody else's. *)
(***************************************************************************)
EntryIsOfOneStation ==
  \A e \in {entry} \union {contacts[i].entry : i \in DOMAIN contacts} :
    Mixes(e) => e.mixed

(***************************************************************************)
(* What was saved stays saved under its id until the operator deletes it,  *)
(* and ids are never shared: no edit, deletion or failed INSERT reaches a  *)
(* contact other than the one under edit, and none reaches the contacts of *)
(* earlier sessions (MainWindow.cpp:807-824, LogManager.cpp:408).          *)
(***************************************************************************)
SavedContactsStay ==
  /\ \A i \in DOMAIN db.rows :
       db.rows[i].id < IF i = Len(db.rows) THEN db.next ELSE db.rows[i + 1].id
  /\ \A s \in saved \union {[id |-> r.id, time |-> r.time] : r \in ToSet(OldRows)} :
       \E r \in ToSet(db.rows) : r.id = s.id /\ r.time = s.time

(***************************************************************************)
(* The files of a date hold its contacts: each park's file those made from *)
(* it, each summit's file (without parks) likewise, the general file all;  *)
(* no file overwrites another, and every record has a mode and submode of  *)
(* ADIF, also those of older databases (AdifExporter.cpp:112-210).         *)
(***************************************************************************)
Ids(records) == [i \in DOMAIN records |-> records[i].id]

FilesCoverTheDay ==
  dialog.open =>
    LET day == SelectedDate(dialog.option)
        files == ExportDate(ContactsForDate(day))
        File(park, summit, rows) ==
          \E f \in files : /\ f.park = park /\ f.summit = summit
                           /\ Ids(f.records) = Ids(rows)
    IN
    /\ \A p \in PotaRefsForDate(day) :
         File(<<p>>, <<>>, ContactsForDateAndPark(day, p))
    /\ PotaRefsForDate(day) = {} =>
         \A s \in SotaRefsForDate(day) :
           File(<<>>, <<s>>, ContactsForDateAndSota(day, <<s>>))
    /\ files # {} <=> day \in DatesWithContacts
    /\ files # {} => File(<<>>, <<>>, ContactsForDate(day))
    /\ \A f, g \in files : FileName(f) = FileName(g) => f = g
    /\ \A f \in files : \A r \in ToSet(f.records) :
         <<r.mode, r.submode>> \in AdifPairs

(***************************************************************************)
(* DECISIONS.md, ADR-047: the preview shows exactly the files that will be *)
(* written, whose names two pieces of code work out.  "Current day" across *)
(* midnight is excepted: the preview is not refreshed.                     *)
(***************************************************************************)
PreviewNamesTheFiles ==
  dialog.open /\ dialog.asOf = SelectedDate(dialog.option) =>
    {FileName(line) : line \in dialog.lines}
      = {FileName(f) : f \in ExportDate(ContactsForDate(dialog.asOf))}

(***************************************************************************)
(* DECISIONS.md, ADR-057: saving an edit overwrites the existing record of *)
(* the database.  Rows are matched by the time, which an edit preserves.   *)
(***************************************************************************)
EditsReachTheDatabase ==
  \A c \in ToSet(contacts) : \A r \in ToSet(db.rows) :
    r.time = c.time => r.entry = c.entry
=============================================================================
