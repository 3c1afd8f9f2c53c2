------------------------------ MODULE LogPanel ------------------------------
(***************************************************************************)
(* src/ui/LogPanel: the entry strip, the table of this session's contacts  *)
(* and the boxes the panel opens.  A box runs a nested event loop: decoded *)
(* messages go on arriving while it is open, the operator's other clicks   *)
(* do not.                                                                 *)
(*                                                                         *)
(* A text field is modelled by the station its text is about: a call, None *)
(* for an empty field, Typed for what the operator entered himself.  Of    *)
(* the fields that auto-population fills only when empty, data stands for  *)
(* all.  mixed is a history: somebody else than the panel put two stations *)
(* into the entry.                                                         *)
(***************************************************************************)
EXTENDS Naturals, SequencesExt

CONSTANTS
  Calls,      \* the other stations
  None, Typed,
  Me,         \* the callsign of the station settings
  MaxRows     \* MAX_VISIBLE_ROWS * 3

ASSUME PanelAssumption ==
  /\ MaxRows \in Nat \ {0}
  /\ Cardinality({None, Typed, Me}) = 3
  /\ Calls \intersect {None, Typed, Me} = {}

VARIABLES
  entry,      \* [call, data, mixed]
  editing,    \* m_editingRow + 1: the row under edit, or 0
  contacts,   \* the table, newest first; the fields kept under each row
  frequency,  \* m_frequency
  box         \* the box open over the panel: its kind and what it names

panelVars == <<entry, editing, contacts, frequency, box>>

Owners == Calls \union {None, Typed}
Entries == [call : Calls \union {None}, data : Owners, mixed : BOOLEAN]
Empty == [call |-> None, data |-> None, mixed |-> FALSE]
NoBox == [kind |-> "none", about |-> None]

\* Whether the fields of an entry are about a station other than its call.
Mixes(e) == e.data \notin {None, Typed, e.call}

\* The entry after somebody other than the panel changed a field.
ByHand(e) == [e EXCEPT !.mixed = Mixes(e)]

\* exitEditMode() and onClear().
Clear ==
  /\ entry' = Empty
  /\ editing' = 0

OnClear == Clear /\ UNCHANGED <<contacts, frequency, box>>

TypeCall(c) ==
  /\ entry' = ByHand([entry EXCEPT !.call = c])
  /\ UNCHANGED <<editing, contacts, frequency, box>>

TypeData ==
  /\ entry' = ByHand([entry EXCEPT !.data = Typed])
  /\ UNCHANGED <<editing, contacts, frequency, box>>

\* populateField() of a field a decoded message of c offered as a link.
PopulateData(c) ==
  /\ entry' = ByHand([entry EXCEPT !.data = c])
  /\ UNCHANGED <<editing, contacts, frequency, box>>

SetFrequency(hz) ==
  /\ frequency' = hz
  /\ UNCHANGED <<entry, editing, contacts, box>>

-----------------------------------------------------------------------------
(***************************************************************************)
(* autoPopulateFromMessage(sender, text): the entry follows the station it *)
(* is about, and is taken over only by a message that names my call.       *)
(* author is who sent the message, which the panel does not see.           *)
(***************************************************************************)
Filled(e, author) == [e EXCEPT !.data = IF @ = None THEN author ELSE @]

\* Mutant: a message for me fills in what is missing, whoever it is from.
AutoPopulateKeeping(sender, author, toMe, tags) ==
  LET same == entry.call # None /\ sender = entry.call
      named == IF sender = None THEN entry ELSE [entry EXCEPT !.call = sender]
      full == IF tags THEN Filled(named, author) ELSE named
  IN
  /\ UNCHANGED <<contacts, frequency, box>>
  /\ IF same \/ toMe
       THEN /\ entry' = IF sender = author THEN full ELSE ByHand(full)
            /\ editing' = IF same \/ entry.call = None THEN editing ELSE 0
       ELSE UNCHANGED <<entry, editing>>

AutoPopulate(sender, author, toMe, tags) ==
  LET same == entry.call # None /\ sender = entry.call
      from == IF same \/ entry.call = None THEN entry ELSE Empty
      named == IF sender = None THEN from ELSE [from EXCEPT !.call = sender]
      full == IF tags THEN Filled(named, author) ELSE named
  IN
  /\ UNCHANGED <<contacts, frequency, box>>
  /\ IF same \/ toMe
       THEN /\ entry' = IF sender = author THEN full ELSE ByHand(full)
            /\ editing' = IF same \/ entry.call = None THEN editing ELSE 0
       ELSE UNCHANGED <<entry, editing>>

-----------------------------------------------------------------------------
\* addContactRow(): the table is cut at its far end.
AddContactRow(fields) ==
  LET longer == <<fields>> \o contacts
  IN  contacts' = SubSeq(longer, 1, IF Len(longer) > MaxRows THEN MaxRows ELSE Len(longer))

\* onLogIt() outside edit mode; fields is what it collected.
LogIt(fields) ==
  /\ entry.call # None
  /\ editing = 0
  /\ AddContactRow(fields)
  /\ Clear
  /\ UNCHANGED <<frequency, box>>

\* onLogIt() in edit mode: date, time and db_id are those of the row.
Updated(fields) ==
  [fields EXCEPT !.day = contacts[editing].day, !.time = contacts[editing].time,
                 !.dbId = contacts[editing].dbId]

UpdateIt(fields) ==
  /\ entry.call # None
  /\ editing # 0
  /\ contacts' = [contacts EXCEPT ![editing] = Updated(fields)]
  /\ Clear
  /\ UNCHANGED <<frequency, box>>

\* A click shows the row's fields and leaves the mode as it is.
OnContactRowClicked(row) ==
  /\ entry' = contacts[row].entry
  /\ UNCHANGED <<editing, contacts, frequency, box>>

OnContactRowDoubleClicked(row) ==
  /\ entry' = contacts[row].entry
  /\ editing' = row
  /\ UNCHANGED <<contacts, frequency, box>>

-----------------------------------------------------------------------------
\* onDeleteEntry() up to its box, which names the call of the entry.
OnDeleteEntry ==
  /\ editing # 0
  /\ box' = [kind |-> "delete",
             about |-> IF entry.call = None THEN contacts[editing].entry.call
                       ELSE entry.call]
  /\ UNCHANGED <<entry, editing, contacts, frequency>>

\* Mutant: the row goes, the mode stays.
ConfirmDeleteStillEditing ==
  /\ box.kind = "delete" /\ editing # 0
  /\ contacts' = RemoveAt(contacts, editing)
  /\ box' = NoBox
  /\ UNCHANGED <<entry, editing, frequency>>

\* Yes.  A message may have ended the edit under the box: then the row is
\* looked up at -1, and the null item dereferenced stops the program.
ConfirmDelete ==
  /\ box.kind = "delete"
  /\ IF editing = 0
       THEN /\ box' = [box EXCEPT !.kind = "crash"]
            /\ UNCHANGED <<entry, editing, contacts, frequency>>
       ELSE /\ contacts' = RemoveAt(contacts, editing)
            /\ Clear
            /\ box' = NoBox
            /\ UNCHANGED frequency

RefuseDelete ==
  /\ box.kind = "delete"
  /\ box' = NoBox
  /\ UNCHANGED <<entry, editing, contacts, frequency>>
=============================================================================
