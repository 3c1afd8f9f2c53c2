---------------------------- MODULE LogDesk_proofs ---------------------------
(***************************************************************************)
(* The logging desk for any stations, messages, size of the table and      *)
(* number of contacts: the fields keep their types and the row under edit  *)
(* is in the table, no entry mixes two stations by itself, what was saved  *)
(* stays, and the files of a date are its contacts and are the ones that   *)
(* the preview names.                                                      *)
(***************************************************************************)
EXTENDS LogDesk, SequenceTheorems, BoundedInduction, TLAPS

\* The entries that EntryIsOfOneStation allows.
SoundEntries == {e \in Entries : Mixes(e) => e.mixed}

\* A row of the table.  Nothing gives it a db_id.
Contact == [entry : SoundEntries, hz : Dials \union {0}, day : Days, time : Nat, dbId : {0}]

PanelInv ==
  /\ entry \in SoundEntries
  /\ contacts \in Seq(Contact) /\ Len(contacts) <= MaxRows
  /\ editing \in 0..Len(contacts)
  /\ frequency \in Dials \union {0}
  /\ box.kind \in {"none", "replace", "delete", "crash"}
  /\ box.kind = "replace" => box.about \in Calls

\* A sequence of whatever it holds.
IsSeq(s) == \E S : s \in Seq(S)

\* The rows of a store are numbered upwards, below the next number.
Numbered(d) ==
  /\ d = [open |-> d.open, rows |-> d.rows, next |-> d.next]
  /\ d.open \in BOOLEAN /\ IsSeq(d.rows) /\ d.next \in Nat
  /\ \A i \in DOMAIN d.rows :
       d.rows[i].id < IF i = Len(d.rows) THEN d.next ELSE d.rows[i + 1].id

\* The store with one row more.
Grown(d, r) == [d EXCEPT !.rows = Append(@, r), !.next = @ + 1]

Stored == saved \union {[id |-> r.id, time |-> r.time] : r \in ToSet(OldRows)}
Holds(rows, s) == \E r \in ToSet(rows) : r.id = s.id /\ r.time = s.time

StoreInv ==
  /\ Numbered(db)
  /\ \A s \in Stored : Holds(db.rows, s)
  /\ db.next \in Len(OldRows) + 1..Len(OldRows) + 1 + clock

DeskInv ==
  /\ station \in Stations /\ today \in Days
  /\ dialog.option \in {Current} \union Days
  /\ clock \in 0..MaxContacts /\ changes \in 0..MaxChanges

IInv == PanelInv /\ StoreInv /\ DeskInv

-----------------------------------------------------------------------------
(***************************************************************************)
(* An empty entry is about nobody.                                         *)
(***************************************************************************)
LEMMA EmptyIsSound == Empty \in SoundEntries
BY DEF Empty, SoundEntries, Entries, Owners, Mixes

(***************************************************************************)
(* What the operator does to an entry is recorded.                         *)
(***************************************************************************)
LEMMA ByHandIsSound ==
  ASSUME NEW e \in Entries
  PROVE  ByHand(e) \in SoundEntries
<1>1. e = [call |-> e.call, data |-> e.data, mixed |-> e.mixed]
  BY DEF Entries
<1>2. ByHand(e) = [call |-> e.call, data |-> e.data, mixed |-> Mixes(e)]
  BY <1>1 DEF ByHand
<1>3. Mixes(e) \in BOOLEAN
  BY DEF Mixes
<1>4. ByHand(e) \in Entries
  BY <1>2, <1>3 DEF Entries
<1>5. Mixes(ByHand(e)) => ByHand(e).mixed
  <2>1. /\ ByHand(e).call = e.call /\ ByHand(e).data = e.data
        /\ ByHand(e).mixed = Mixes(e)
    BY <1>2
  <2>2. Mixes(ByHand(e)) <=> Mixes(e)
    BY <2>1 DEF Mixes
  <2>3. QED
    BY <2>1, <2>2, Zenon
<1>6. QED
  BY <1>4, <1>5 DEF SoundEntries

(***************************************************************************)
(* autoPopulateFromMessage(): what is filled in is the sender's, into an   *)
(* entry about the sender or about nobody.                                 *)
(***************************************************************************)
LEMMA FilledIsSound ==
  ASSUME NEW e \in SoundEntries, NEW sender \in Calls \union {None},
         NEW author \in Calls, NEW tags \in BOOLEAN,
         e.call = None \/ e.call = sender
  PROVE  LET named == IF sender = None THEN e ELSE [e EXCEPT !.call = sender]
             full == IF tags THEN Filled(named, author) ELSE named
         IN  (IF sender = author THEN full ELSE ByHand(full)) \in SoundEntries
<1> DEFINE named == IF sender = None THEN e ELSE [e EXCEPT !.call = sender]
           full == IF tags THEN Filled(named, author) ELSE named
<1> SUFFICES (IF sender = author THEN full ELSE ByHand(full)) \in SoundEntries
  OBVIOUS
<1>1. /\ e \in Entries /\ (Mixes(e) => e.mixed)
      /\ e = [call |-> e.call, data |-> e.data, mixed |-> e.mixed]
  BY DEF SoundEntries, Entries
<1>2. named = [call |-> IF sender = None THEN e.call ELSE sender, data |-> e.data,
               mixed |-> e.mixed]
  BY <1>1
<1>3. full = [call |-> IF sender = None THEN e.call ELSE sender,
              data |-> IF tags /\ e.data = None THEN author ELSE e.data,
              mixed |-> e.mixed]
  BY <1>2 DEF Filled
<1> HIDE DEF full
<1>4. full \in Entries
  BY <1>1, <1>3 DEF Entries, Owners
<1>5. CASE sender = author
  <2>1. full.call = author
    BY <1>3, <1>5, PanelAssumption
  <2>2. ASSUME full.data \notin {None, Typed, author} PROVE e.mixed
    BY <2>2, <1>1, <1>3, <1>5 DEF Mixes
  <2>3. QED
    BY <2>1, <2>2, <1>3, <1>4, <1>5 DEF SoundEntries, Mixes
<1>6. CASE sender # author
  BY <1>4, <1>6, ByHandIsSound
<1>7. QED
  BY <1>5, <1>6

(***************************************************************************)
(* The fields of onLogIt() are a row.                                      *)
(***************************************************************************)
LEMMA FieldsAreARow ==
  ASSUME PanelInv, DeskInv
  PROVE  Fields \in Contact
BY DEF Fields, Contact, PanelInv, DeskInv

(***************************************************************************)
(* addContactRow() leaves no more rows than the table may have.            *)
(***************************************************************************)
LEMMA AddedRow ==
  ASSUME NEW t \in Seq(Contact), NEW f \in Contact
  PROVE  LET longer == <<f>> \o t
             cut == SubSeq(longer, 1, IF Len(longer) > MaxRows THEN MaxRows ELSE Len(longer))
         IN  cut \in Seq(Contact) /\ Len(cut) <= MaxRows
<1> DEFINE longer == <<f>> \o t
           end == IF Len(longer) > MaxRows THEN MaxRows ELSE Len(longer)
<1>1. longer \in Seq(Contact)
  BY ConcatProperties
<1> HIDE DEF longer
<1>2. Len(longer) \in Nat /\ \A i \in 1..Len(longer) : longer[i] \in Contact
  BY <1>1, LenProperties, ElementOfSeq
<1>3. end \in Nat /\ end <= MaxRows /\ end <= Len(longer)
  BY <1>2, PanelAssumption
<1> HIDE DEF end
<1>4. \A i \in 1..end : longer[i] \in Contact
  BY <1>2, <1>3
<1>5. SubSeq(longer, 1, end) \in Seq(Contact) /\ Len(SubSeq(longer, 1, end)) <= MaxRows
  BY <1>3, <1>4, SubSeqProperties, PanelAssumption
<1>6. QED
  BY <1>5 DEF longer, end

(***************************************************************************)
(* removeRow() leaves the other rows.                                      *)
(***************************************************************************)
LEMMA RemovedRow ==
  ASSUME NEW t \in Seq(Contact), NEW i \in 1..Len(t)
  PROVE  RemoveAt(t, i) \in Seq(Contact) /\ Len(RemoveAt(t, i)) <= Len(t)
<1>1. Len(t) \in Nat /\ \A j \in 1..Len(t) : t[j] \in Contact
  BY LenProperties, ElementOfSeq
<1>2. /\ SubSeq(t, 1, i - 1) \in Seq(Contact)
      /\ Len(SubSeq(t, 1, i - 1)) = IF 1 <= i - 1 THEN i - 1 - 1 + 1 ELSE 0
  BY <1>1, SubSeqProperties
<1>3. /\ SubSeq(t, i + 1, Len(t)) \in Seq(Contact)
      /\ Len(SubSeq(t, i + 1, Len(t))) = IF i + 1 <= Len(t) THEN Len(t) - (i + 1) + 1 ELSE 0
  BY <1>1, SubSeqProperties
<1> DEFINE front == SubSeq(t, 1, i - 1)
           back == SubSeq(t, i + 1, Len(t))
<1>4. Len(front) \in Nat /\ Len(back) \in Nat /\ Len(front) + Len(back) <= Len(t)
  <2>1. i \in Nat /\ 1 <= i /\ i <= Len(t) /\ Len(t) \in Nat
    BY <1>1
  <2>2. Len(front) = i - 1
    BY <2>1, <1>2
  <2>3. Len(back) = Len(t) - i
    BY <2>1, <1>3
  <2> HIDE DEF front, back
  <2>4. QED
    BY <2>1, <2>2, <2>3
<1>5. front \in Seq(Contact) /\ back \in Seq(Contact)
  BY <1>2, <1>3
<1>6. RemoveAt(t, i) = front \o back
  BY DEF RemoveAt
<1> HIDE DEF front, back
<1>7. front \o back \in Seq(Contact) /\ Len(front \o back) = Len(front) + Len(back)
  BY <1>5, ConcatProperties
<1>8. QED
  BY <1>1, <1>4, <1>6, <1>7

-----------------------------------------------------------------------------
(***************************************************************************)
(* The rows of earlier sessions can be counted.                            *)
(***************************************************************************)
LEMMA OldLength == Len(OldRows) \in Nat /\ DOMAIN OldRows = 1..Len(OldRows)
BY DeskAssumption, LenProperties

(***************************************************************************)
(* logContact(): a new row comes after the others, whose ids are below its *)
(* own, and costs none of them.                                            *)
(***************************************************************************)
LEMMA RowsGrow ==
  ASSUME NEW d, NEW r, Numbered(d), r.id = d.next
  PROVE  /\ Numbered(Grown(d, r)) /\ Grown(d, r).next = d.next + 1
         /\ \A s : Holds(d.rows, s) => Holds(Grown(d, r).rows, s)
         /\ \A s : r.id = s.id /\ r.time = s.time => Holds(Grown(d, r).rows, s)
<1> DEFINE e == Grown(d, r)
<1>0. e = [d EXCEPT !.rows = Append(@, r), !.next = @ + 1]
  BY DEF Grown
<1> HIDE DEF e
<1>1. PICK S : d.rows \in Seq(S)
  BY DEF Numbered, IsSeq
<1>2. d.rows \in Seq(S \union {r}) /\ r \in S \union {r}
  BY <1>1
<1>3. /\ Append(d.rows, r) \in Seq(S \union {r})
      /\ Len(d.rows) \in Nat
      /\ Len(Append(d.rows, r)) = Len(d.rows) + 1
      /\ DOMAIN Append(d.rows, r) = 1..Len(d.rows) + 1
      /\ DOMAIN d.rows = 1..Len(d.rows)
      /\ \A i \in 1..Len(d.rows) : Append(d.rows, r)[i] = d.rows[i]
      /\ Append(d.rows, r)[Len(d.rows) + 1] = r
  BY <1>2, AppendProperties, LenProperties
<1>4. /\ e = [open |-> d.open, rows |-> Append(d.rows, r), next |-> d.next + 1]
      /\ e.next = d.next + 1 /\ e.rows = Append(d.rows, r) /\ e.open = d.open
      /\ d.next \in Nat /\ d.open \in BOOLEAN
  BY <1>0 DEF Numbered
<1>5. IsSeq(e.rows)
  BY <1>3, <1>4 DEF IsSeq
<1>6. ASSUME NEW i \in DOMAIN e.rows
      PROVE  e.rows[i].id < IF i = Len(e.rows) THEN e.next ELSE e.rows[i + 1].id
  <2>1. CASE i = Len(d.rows) + 1
    BY <2>1, <1>3, <1>4
  <2>2. CASE i = Len(d.rows)
    <3>1. i \in DOMAIN d.rows
      BY <2>2, <1>3, <1>4, <1>6
    <3>2. d.rows[i].id < d.next
      BY <2>2, <3>1 DEF Numbered
    <3>3. QED
      BY <2>2, <3>1, <3>2, <1>3, <1>4
  <2>3. CASE i \in 1..Len(d.rows) - 1
    <3>1. i \in DOMAIN d.rows /\ i # Len(d.rows) /\ i + 1 \in 1..Len(d.rows)
      BY <2>3, <1>3
    <3>2. d.rows[i].id < d.rows[i + 1].id
      BY <3>1 DEF Numbered
    <3>3. i # Len(e.rows)
      BY <3>1, <1>3, <1>4
    <3>4. QED
      BY <3>1, <3>2, <3>3, <1>3, <1>4
  <2>4. QED
    BY <2>1, <2>2, <2>3, <1>3, <1>4, <1>6
<1>7. Numbered(e)
  <2>1. e.next \in Nat
    BY <1>4
  <2>2. e = [open |-> e.open, rows |-> e.rows, next |-> e.next] /\ e.open \in BOOLEAN
    BY <1>4
  <2>3. QED
    BY <2>1, <2>2, <1>5, <1>6, Zenon DEF Numbered
<1>8. ASSUME NEW s, Holds(d.rows, s) PROVE Holds(e.rows, s)
  <2>1. PICK i \in DOMAIN d.rows : d.rows[i].id = s.id /\ d.rows[i].time = s.time
    BY <1>8 DEF Holds, ToSet
  <2>2. i \in DOMAIN e.rows /\ e.rows[i] = d.rows[i]
    BY <2>1, <1>3, <1>4
  <2>3. QED
    BY <2>1, <2>2 DEF Holds, ToSet
<1>9. ASSUME NEW s, r.id = s.id /\ r.time = s.time PROVE Holds(e.rows, s)
  <2>1. Len(d.rows) + 1 \in DOMAIN e.rows /\ e.rows[Len(d.rows) + 1] = r
    BY <1>3, <1>4
  <2>2. QED
    BY <2>1, <1>9 DEF Holds, ToSet
<1>10. QED
  BY <1>4, <1>7, <1>8, <1>9 DEF e

(***************************************************************************)
(* A step that leaves the database and the clock, and forgets at most some *)
(* of what was saved, leaves the store as it was.                          *)
(***************************************************************************)
LEMMA StoreUntouched ==
  ASSUME StoreInv, UNCHANGED <<db, clock>>, saved' \subseteq saved
  PROVE  StoreInv'
<1>1. Stored' \subseteq Stored
  BY DEF Stored
<1>2. QED
  BY <1>1 DEF StoreInv

(***************************************************************************)
(* logContact() of the fields that the panel collected.                    *)
(***************************************************************************)
LEMMA LogKeepsTheStore ==
  ASSUME StoreInv, DeskInv, NEW works \in BOOLEAN, Log(works)
  PROVE  StoreInv'
<1> DEFINE r == Row(db.next, Fields, station)
           s == [id |-> db.next, time |-> clock + 1]
<1>1. Numbered(db) /\ (\A x \in Stored : Holds(db.rows, x)) /\ clock \in Nat
  BY DEF StoreInv, DeskInv
<1>2. clock' = clock + 1
  BY DEF Log
<1>3. CASE ~(db.open /\ works)
  <2>1. db' = db /\ saved' = saved
    BY <1>3 DEF Log, LogContact
  <2>2. Stored' = Stored
    BY <2>1 DEF Stored
  <2>3. db.next \in Len(OldRows) + 1..Len(OldRows) + 1 + clock'
    BY <1>1, <1>2, OldLength DEF StoreInv
  <2>4. QED
    BY <2>1, <2>2, <2>3 DEF StoreInv
<1>4. CASE db.open /\ works
  <2>1. db' = [db EXCEPT !.rows = Append(@, r), !.next = @ + 1]
    BY <1>4 DEF Log, LogContact
  <2>2. saved' = saved \union {s}
    BY <1>4 DEF Log
  <2>3. r.id = db.next /\ r.id = s.id /\ r.time = s.time
    BY DEF Row, Fields
  <2>4. Stored' = Stored \union {s}
    BY <2>2 DEF Stored
  <2> HIDE DEF r, s
  <2>5. /\ Numbered(db') /\ db'.next = db.next + 1
        /\ \A x : Holds(db.rows, x) => Holds(db'.rows, x)
        /\ Holds(db'.rows, s)
    <3>1. Numbered(db) /\ r.id = db.next /\ db' = Grown(db, r)
      BY <1>1, <2>1, <2>3 DEF Grown
    <3>2. /\ Numbered(Grown(db, r)) /\ Grown(db, r).next = db.next + 1
          /\ \A x : Holds(db.rows, x) => Holds(Grown(db, r).rows, x)
          /\ \A x : r.id = x.id /\ r.time = x.time => Holds(Grown(db, r).rows, x)
      BY <3>1, RowsGrow
    <3>3. QED
      BY <3>1, <3>2, <2>3, Zenon
  <2>6. \A x \in Stored' : Holds(db'.rows, x)
    BY <2>4, <2>5, <1>1
  <2>7. db'.next \in Len(OldRows) + 1..Len(OldRows) + 1 + clock'
    BY <2>5, <1>1, <1>2, OldLength DEF StoreInv
  <2>8. QED
    BY <2>5, <2>6, <2>7 DEF StoreInv, Numbered
<1>5. QED
  BY <1>3, <1>4

-----------------------------------------------------------------------------
(***************************************************************************)
(* The fields kept under a row are a contact.                              *)
(***************************************************************************)
LEMMA RowsAreContacts ==
  ASSUME PanelInv
  PROVE  /\ Len(contacts) \in Nat /\ DOMAIN contacts = 1..Len(contacts)
         /\ \A i \in 1..Len(contacts) : contacts[i] \in Contact
BY LenProperties, ElementOfSeq DEF PanelInv

(***************************************************************************)
(* onMessageReceived().                                                    *)
(***************************************************************************)
LEMMA ReceiveKeepsThePanel ==
  ASSUME PanelInv, NEW m \in Messages, Receive(m)
  PROVE  PanelInv'
<1>1. CASE ~m.crcOk
  <2>1. UNCHANGED panelVars
    BY <1>1 DEF Receive
  <2>2. QED
    BY <2>1 DEF panelVars, PanelInv
<1>2. CASE m.crcOk
  <2> DEFINE sender == Sender(m)
             same == entry.call # None /\ sender = entry.call
             from == IF same \/ entry.call = None THEN entry ELSE Empty
             named == IF sender = None THEN from ELSE [from EXCEPT !.call = sender]
             full == IF m.tags THEN Filled(named, m.from) ELSE named
             filled == IF sender = m.from THEN full ELSE ByHand(full)
  <2>1. AutoPopulate(sender, m.from, m.to = Me, m.tags)
    BY <1>2 DEF Receive
  <2>2. UNCHANGED <<contacts, frequency, box>>
    BY <2>1 DEF AutoPopulate
  <2>3. /\ entry' \in {entry, filled}
        /\ editing' \in {editing, 0}
    BY <2>1 DEF AutoPopulate
  <2>4. filled \in SoundEntries
    <3>1. m.from \in Calls /\ sender \in Calls \union {None}
      BY DeskAssumption DEF Sender
    <3>2. from \in SoundEntries /\ (from.call = None \/ from.call = sender)
      BY EmptyIsSound DEF PanelInv, Empty
    <3> HIDE DEF from, sender
    <3>3. CASE m.tags
      BY <3>1, <3>2, <3>3, FilledIsSound
    <3>4. CASE ~m.tags
      BY <3>1, <3>2, <3>4, FilledIsSound
    <3>5. QED
      BY <3>3, <3>4
  <2> HIDE DEF filled
  <2>5. entry' \in SoundEntries /\ editing' \in 0..Len(contacts')
    BY <2>2, <2>3, <2>4, RowsAreContacts DEF PanelInv
  <2>6. QED
    BY <2>2, <2>5 DEF PanelInv
<1>3. QED
  BY <1>1, <1>2

(***************************************************************************)
(* What the operator does to the panel: whatever he enters is recorded, a  *)
(* row he clicks was sound when it was logged.                             *)
(***************************************************************************)
LEMMA OperateKeepsThePanel ==
  ASSUME PanelInv, Operate
  PROVE  PanelInv'
<1>1. entry \in Entries /\ Typed \in Owners /\ None \notin Calls
  BY PanelAssumption DEF PanelInv, SoundEntries, Owners
<1>2. CASE OnClear
  BY <1>2, EmptyIsSound, RowsAreContacts DEF OnClear, Clear, PanelInv
<1>3. CASE TypeData
  <2>1. [entry EXCEPT !.data = Typed] \in Entries
    BY <1>1 DEF Entries
  <2>2. QED
    BY <1>3, <2>1, ByHandIsSound DEF TypeData, PanelInv
<1>4. CASE OnDeleteEntry
  BY <1>4 DEF OnDeleteEntry, PanelInv
<1>5. ASSUME NEW c \in Calls \union {None}, TypeCall(c)
      PROVE  PanelInv'
  <2>1. [entry EXCEPT !.call = c] \in Entries
    BY <1>1 DEF Entries
  <2>2. QED
    BY <1>5, <2>1, ByHandIsSound DEF TypeCall, PanelInv
<1>6. ASSUME NEW c \in Calls, PopulateData(c)
      PROVE  PanelInv'
  <2>1. [entry EXCEPT !.data = c] \in Entries
    BY <1>1 DEF Entries, Owners
  <2>2. QED
    BY <1>6, <2>1, ByHandIsSound DEF PopulateData, PanelInv
<1>7. ASSUME NEW row \in DOMAIN contacts,
             OnContactRowClicked(row) \/ OnContactRowDoubleClicked(row)
      PROVE  PanelInv'
  <2>1. contacts[row].entry \in SoundEntries /\ row \in 0..Len(contacts)
    BY RowsAreContacts DEF Contact
  <2>2. entry' = contacts[row].entry /\ editing' \in {editing, row}
    BY <1>7 DEF OnContactRowClicked, OnContactRowDoubleClicked
  <2>3. UNCHANGED <<contacts, frequency, box>>
    BY <1>7 DEF OnContactRowClicked, OnContactRowDoubleClicked
  <2>4. QED
    BY <2>1, <2>2, <2>3 DEF PanelInv
<1>8. QED
  BY <1>2, <1>3, <1>4, <1>5, <1>6, <1>7 DEF Operate

(***************************************************************************)
(* populateField() of a call, and its question.                            *)
(***************************************************************************)
LEMMA ClickKeepsThePanel ==
  ASSUME PanelInv, NEW c \in Calls, ClickCall(c)
  PROVE  PanelInv'
<1>1. [entry EXCEPT !.call = c] \in Entries
  BY DEF PanelInv, SoundEntries, Entries
<1>2. ByHand([entry EXCEPT !.call = c]) \in SoundEntries
  BY <1>1, ByHandIsSound
<1>3. UNCHANGED <<editing, contacts, frequency>>
  BY DEF ClickCall
<1>4. \/ entry' = ByHand([entry EXCEPT !.call = c]) /\ UNCHANGED box
      \/ box' = [kind |-> "replace", about |-> c] /\ UNCHANGED entry
  BY DEF ClickCall
<1>5. QED
  BY <1>2, <1>3, <1>4 DEF PanelInv

(***************************************************************************)
(* The answer to that question: whatever messages did to the entry under   *)
(* the box, the call is set and recorded.                                  *)
(***************************************************************************)
LEMMA AnswerKeepsThePanel ==
  ASSUME PanelInv, NEW yes \in BOOLEAN, AnswerReplace(yes)
  PROVE  PanelInv'
<1>1. box.about \in Calls
  BY DEF AnswerReplace, PanelInv
<1>2. [entry EXCEPT !.call = box.about] \in Entries
  BY <1>1 DEF PanelInv, SoundEntries, Entries
<1>3. entry' \in SoundEntries
  BY <1>2, ByHandIsSound DEF AnswerReplace, PanelInv
<1>4. UNCHANGED <<editing, contacts, frequency>> /\ box' = NoBox
  BY DEF AnswerReplace
<1>5. QED
  BY <1>3, <1>4 DEF PanelInv, NoBox

(***************************************************************************)
(* onLogIt() outside edit mode.                                            *)
(***************************************************************************)
LEMMA LogKeepsThePanel ==
  ASSUME PanelInv, DeskInv, NEW works \in BOOLEAN, Log(works)
  PROVE  PanelInv'
<1>1. /\ AddContactRow(Fields)
      /\ entry' = Empty /\ editing' = 0
      /\ UNCHANGED <<frequency, box>>
  BY DEF Log, LogIt, Clear
<1>2. contacts' \in Seq(Contact) /\ Len(contacts') <= MaxRows
  BY <1>1, FieldsAreARow, AddedRow DEF AddContactRow, PanelInv
<1>3. editing' \in 0..Len(contacts')
  BY <1>1, <1>2, LenProperties
<1>4. QED
  BY <1>1, <1>2, <1>3, EmptyIsSound DEF PanelInv

(***************************************************************************)
(* onLogIt() in edit mode; the row it writes has no db_id either.          *)
(***************************************************************************)
LEMMA UpdateKeepsThePanel ==
  ASSUME PanelInv, DeskInv, Update
  PROVE  PanelInv' /\ UNCHANGED db
<1>1. /\ editing # 0
      /\ contacts' = [contacts EXCEPT ![editing] = Updated(Fields)]
      /\ entry' = Empty /\ editing' = 0
      /\ UNCHANGED <<frequency, box>>
  BY DEF Update, UpdateIt, Clear
<1>2. editing \in 1..Len(contacts) /\ contacts[editing] \in Contact
  BY <1>1, RowsAreContacts DEF PanelInv
<1>3. Fields \in Contact
  BY FieldsAreARow
<1>4. Updated(Fields) \in Contact /\ Updated(Fields).dbId = 0
  BY <1>2, <1>3 DEF Updated, Contact
<1>5. contacts' \in Seq(Contact) /\ Len(contacts') = Len(contacts)
  BY <1>1, <1>2, <1>4, ExceptSeq DEF PanelInv
<1>6. UNCHANGED db
  BY <1>4 DEF Update
<1>7. PanelInv'
  BY <1>1, <1>5, RowsAreContacts, EmptyIsSound DEF PanelInv
<1>8. QED
  BY <1>6, <1>7

(***************************************************************************)
(* The answers to the box of onDeleteEntry().                              *)
(***************************************************************************)
LEMMA DeleteKeepsThePanel ==
  ASSUME PanelInv, Delete
  PROVE  PanelInv' /\ UNCHANGED db /\ saved' \subseteq saved
<1>1. CASE editing = 0
  <2>1. /\ UNCHANGED <<entry, editing, contacts, frequency, db, saved>>
        /\ box' = [box EXCEPT !.kind = "crash"]
    BY <1>1 DEF Delete, ConfirmDelete
  <2>2. box.kind = "delete"
    BY DEF Delete, ConfirmDelete
  <2>3. box'.kind = "crash" \/ box' = box
    BY <2>1
  <2>4. QED
    BY <2>1, <2>2, <2>3 DEF PanelInv
<1>2. CASE editing # 0
  <2>1. /\ contacts' = RemoveAt(contacts, editing)
        /\ entry' = Empty /\ editing' = 0 /\ box' = NoBox
        /\ UNCHANGED frequency
    BY <1>2 DEF Delete, ConfirmDelete, Clear
  <2>2. editing \in 1..Len(contacts)
    BY <1>2, RowsAreContacts DEF PanelInv
  <2>3. contacts' \in Seq(Contact) /\ Len(contacts') <= Len(contacts)
    BY <2>1, <2>2, RemovedRow DEF PanelInv
  <2>4. Len(contacts') \in Nat /\ Len(contacts') <= MaxRows
    BY <2>3, LenProperties, RowsAreContacts, PanelAssumption DEF PanelInv
  <2>5. PanelInv'
    BY <2>1, <2>3, <2>4, EmptyIsSound DEF PanelInv, NoBox
  <2>6. contacts[editing].dbId = 0
    BY <2>2, RowsAreContacts DEF Contact
  <2>7. UNCHANGED db
    BY <1>2, <2>6 DEF Delete, DeleteContact
  <2>8. saved' \subseteq saved
    BY <1>2 DEF Delete
  <2>9. QED
    BY <2>5, <2>7, <2>8
<1>3. QED
  BY <1>1, <1>2

(***************************************************************************)
(* The clock and the settings stay in their bounds.                        *)
(***************************************************************************)
LEMMA LogKeepsTheDesk ==
  ASSUME DeskInv, NEW works \in BOOLEAN, Log(works)
  PROVE  DeskInv'
<1>1. UNCHANGED <<station, today, dialog>> /\ clock' = clock + 1 /\ clock < MaxContacts
  BY DEF Log
<1>2. changes' \in {changes, changes + 1} /\ (changes' = changes \/ changes < MaxChanges)
  BY DEF Log
<1>3. QED
  BY <1>1, <1>2, DeskAssumption DEF DeskInv

-----------------------------------------------------------------------------
(***************************************************************************)
(* The invariant holds at the start, with or without an open database.     *)
(***************************************************************************)
LEMMA InitIInv == Init => IInv
<1> SUFFICES ASSUME Init PROVE IInv
  OBVIOUS
<1>1. PanelInv
  <2>1. contacts = <<>> /\ contacts \in Seq(Contact) /\ Len(contacts) = 0
    BY EmptySeq DEF Init
  <2>2. QED
    BY <2>1, EmptyIsSound, PanelAssumption DEF Init, PanelInv, NoBox
<1>2. StoreInv
  <2>1. /\ db = [open |-> db.open, rows |-> OldRows, next |-> Len(OldRows) + 1]
        /\ db.open \in BOOLEAN /\ db.rows = OldRows /\ db.next = Len(OldRows) + 1
    <3>1. Opened(OldRows) = [open |-> TRUE, rows |-> OldRows, next |-> Len(OldRows) + 1]
      BY DEF Opened
    <3>2. Unopened(OldRows) = [open |-> FALSE, rows |-> OldRows, next |-> Len(OldRows) + 1]
      BY DEF Unopened
    <3>3. db = Opened(OldRows) \/ db = Unopened(OldRows)
      BY DEF Init
    <3>4. CASE db = Opened(OldRows)
      <4>1. db.open = TRUE
        BY <3>1, <3>4
      <4>2. QED
        BY <3>1, <3>4, <4>1
    <3>5. CASE db = Unopened(OldRows)
      <4>1. db.open = FALSE
        BY <3>2, <3>5
      <4>2. QED
        BY <3>2, <3>5, <4>1
    <3>6. QED
      BY <3>3, <3>4, <3>5
  <2>2. IsSeq(OldRows)
    BY DeskAssumption DEF IsSeq
  <2>3. ASSUME NEW i \in DOMAIN OldRows
        PROVE  OldRows[i].id < IF i = Len(OldRows) THEN Len(OldRows) + 1
                               ELSE OldRows[i + 1].id
    <3>1. i \in 1..Len(OldRows) /\ OldRows[i].id = i
      BY OldLength, DeskAssumption
    <3>2. CASE i = Len(OldRows)
      BY <3>1, <3>2, OldLength
    <3>3. CASE i # Len(OldRows)
      <4>1. i + 1 \in DOMAIN OldRows
        BY <3>1, <3>3, OldLength
      <4>2. OldRows[i + 1].id = i + 1
        BY <4>1, DeskAssumption
      <4>3. QED
        BY <3>1, <3>3, <4>2, OldLength
    <3>4. QED
      BY <3>2, <3>3
  <2>4. Numbered(db)
    BY <2>1, <2>2, <2>3, OldLength DEF Numbered
  <2>5. Stored = {[id |-> r.id, time |-> r.time] : r \in ToSet(OldRows)}
    BY DEF Init, Stored
  <2>6. \A s \in Stored : Holds(OldRows, s)
    BY <2>5 DEF Holds
  <2>7. clock = 0
    BY DEF Init
  <2>8. db.next \in Len(OldRows) + 1..Len(OldRows) + 1 + clock
    BY <2>1, <2>7, OldLength
  <2>9. QED
    BY <2>1, <2>4, <2>6, <2>8 DEF StoreInv
<1>3. DeskInv
  BY DeskAssumption DEF Init, DeskInv, Days, Closed
<1>4. QED
  BY <1>1, <1>2, <1>3 DEF IInv

(***************************************************************************)
(* Every step preserves the invariant.                                     *)
(***************************************************************************)
LEMMA NextIInv == IInv /\ [Next]_vars => IInv'
<1> SUFFICES ASSUME IInv, [Next]_vars PROVE IInv'
  OBVIOUS
<1> USE DEF IInv
<1>a. ASSUME UNCHANGED deskVars PROVE DeskInv'
  BY <1>a DEF deskVars, DeskInv
<1>b. ASSUME UNCHANGED <<db, deskVars>> PROVE StoreInv'
  BY <1>b, StoreUntouched DEF deskVars
<1>c. ASSUME UNCHANGED panelVars PROVE PanelInv'
  BY <1>c DEF panelVars, PanelInv
<1>1. ASSUME NEW m \in Messages, Receive(m) PROVE IInv'
  BY <1>1, <1>a, <1>b, ReceiveKeepsThePanel DEF Receive
<1>2. ASSUME NEW c \in Calls, ClickCall(c) PROVE IInv'
  BY <1>2, <1>a, <1>b, ClickKeepsThePanel DEF ClickCall
<1>3. ASSUME NEW yes \in BOOLEAN, AnswerReplace(yes) PROVE IInv'
  BY <1>3, <1>a, <1>b, AnswerKeepsThePanel DEF AnswerReplace
<1>4. CASE Operate
  BY <1>4, <1>a, <1>b, OperateKeepsThePanel DEF Operate
<1>5. ASSUME NEW works \in BOOLEAN, Log(works) PROVE IInv'
  BY <1>5, LogKeepsThePanel, LogKeepsTheStore, LogKeepsTheDesk
<1>6. CASE Update
  <2>1. UNCHANGED <<station, today, dialog, clock, saved>>
        /\ changes' = changes + 1 /\ changes < MaxChanges
    BY <1>6 DEF Update
  <2>2. DeskInv'
    BY <2>1, DeskAssumption DEF DeskInv
  <2>3. QED
    BY <1>6, <2>1, <2>2, UpdateKeepsThePanel, StoreUntouched
<1>7. CASE Delete
  <2>1. UNCHANGED <<station, today, dialog, clock, changes>>
    BY <1>7 DEF Delete
  <2>2. DeskInv'
    BY <2>1 DEF DeskInv
  <2>3. QED
    BY <1>7, <2>1, <2>2, DeleteKeepsThePanel, StoreUntouched
<1>8. CASE KeepRow
  BY <1>8, <1>a, <1>b DEF KeepRow, RefuseDelete, PanelInv, NoBox
<1>9. ASSUME NEW d, Dialog(d), d.option \in {Current} \union Days PROVE IInv'
  <2>1. DeskInv'
    BY <1>9 DEF Dialog, DeskInv
  <2>2. StoreInv'
    BY <1>9, StoreUntouched DEF Dialog
  <2>3. QED
    BY <1>9, <1>c, <2>1, <2>2 DEF Dialog
<1>10. ASSUME NEW option \in {Current} \union Days
       PROVE  Refreshed(option).option \in {Current} \union Days
  BY DEF Refreshed
<1>11. CASE OpenExport
  BY <1>9, <1>10, <1>11 DEF OpenExport
<1>12. CASE CancelExport
  BY <1>9, <1>12 DEF CancelExport, Closed
<1>13. ASSUME NEW option \in {Current} \union Days, ChooseDate(option) PROVE IInv'
  BY <1>9, <1>10, <1>13 DEF ChooseDate
<1>14. ASSUME NEW written \in BOOLEAN, Export(written) PROVE IInv'
  <2>1. PICK d \in {Closed, dialog} : Dialog(d)
    BY <1>14 DEF Export
  <2>2. d.option \in {Current} \union Days
    BY <2>1 DEF Closed, DeskInv
  <2>3. QED
    BY <1>9, <2>1, <2>2
<1>15. CASE Change
  <2>1. UNCHANGED <<db, dialog, clock, saved>> /\ changes' = changes + 1
        /\ changes < MaxChanges
    BY <1>15 DEF Change
  <2>2. StoreInv'
    BY <2>1, StoreUntouched
  <2>3. station' \in Stations /\ today' \in Days
    BY <1>15 DEF Change, DeskInv
  <2>4. DeskInv'
    BY <2>1, <2>3, DeskAssumption DEF DeskInv
  <2>5. PanelInv'
    BY <1>15 DEF Change, panelVars, SetFrequency, PanelInv
  <2>6. QED
    BY <2>2, <2>4, <2>5
<1>16. CASE UNCHANGED vars
  BY <1>16, <1>a, <1>b, <1>c DEF vars
<1>17. QED
  BY <1>1, <1>2, <1>3, <1>4, <1>5, <1>6, <1>7, <1>8, <1>11, <1>12, <1>13, <1>14,
     <1>15, <1>16 DEF Next

(***************************************************************************)
(* The invariant of the desk.                                              *)
(***************************************************************************)
LEMMA AlwaysIInv == Spec => []IInv
BY InitIInv, NextIInv, PTL DEF Spec

(***************************************************************************)
(* The fields keep their types and the row under edit is in the table,     *)
(* whatever messages arrive under an open box (LogPanel.cpp).              *)
(***************************************************************************)
THEOREM AlwaysTypeOK == Spec => []TypeOK
<1>1. IInv => TypeOK
  <2> SUFFICES ASSUME IInv PROVE TypeOK
    OBVIOUS
  <2>1. ASSUME NEW i \in DOMAIN contacts
        PROVE  contacts[i].entry \in Entries /\ contacts[i].day \in Days
    BY RowsAreContacts DEF IInv, Contact, SoundEntries
  <2>2. QED
    BY <2>1 DEF TypeOK, IInv, PanelInv, StoreInv, DeskInv, Numbered, SoundEntries
<1>2. QED
  BY <1>1, AlwaysIInv, PTL

(***************************************************************************)
(* ADR-121 for any stations and messages: what auto-population writes into *)
(* an entry is of the station the entry is about.                          *)
(***************************************************************************)
THEOREM AlwaysEntryIsOfOneStation == Spec => []EntryIsOfOneStation
<1>1. IInv => EntryIsOfOneStation
  <2> SUFFICES ASSUME IInv PROVE EntryIsOfOneStation
    OBVIOUS
  <2>1. \A i \in DOMAIN contacts : contacts[i].entry \in SoundEntries
    BY RowsAreContacts DEF IInv, Contact
  <2>2. entry \in SoundEntries
    BY DEF IInv, PanelInv
  <2>3. QED
    BY <2>1, <2>2 DEF EntryIsOfOneStation, SoundEntries
<1>2. QED
  BY <1>1, AlwaysIInv, PTL

(***************************************************************************)
(* Contacts that were saved stay, for any number of contacts: ids grow,    *)
(* and an edit or a deletion reaches no row of the database at all, since  *)
(* no row of the table knows its id (MainWindow.cpp:807-824).              *)
(***************************************************************************)
THEOREM AlwaysSavedContactsStay == Spec => []SavedContactsStay
<1>1. IInv => SavedContactsStay
  BY DEF IInv, StoreInv, Numbered, Stored, Holds, SavedContactsStay
<1>2. QED
  BY <1>1, AlwaysIInv, PTL

-----------------------------------------------------------------------------
\* The rows of the database have a mode, or the name of a modem for one; the
\* preview of an open dialog is that of the date it was made for.
ExportInv ==
  /\ \A r \in ToSet(db.rows) : HasItsMode(r)
  /\ dialog.open => dialog.lines = Preview(dialog.asOf)

(***************************************************************************)
(* The contacts of a date are rows of the database, and a date without     *)
(* rows has none.                                                          *)
(***************************************************************************)
LEMMA RowsOfTheDay ==
  ASSUME Numbered(db), NEW day
  PROVE  /\ IsSeq(ContactsForDate(day))
         /\ ToSet(ContactsForDate(day)) \subseteq ToSet(db.rows)
         /\ ContactsForDate(day) # <<>> <=> day \in DatesWithContacts
<1> DEFINE X == {r \in ToSet(db.rows) : r.day = day}
<1>1. CASE ~db.open
  BY <1>1, EmptySeq DEF ContactsForDate, DatesWithContacts, IsSeq, ToSet
<1>2. CASE db.open
  <2>1. PICK T : db.rows \in Seq(T)
    BY DEF Numbered, IsSeq
  <2>2. ContactsForDate(day) = Kept(db.rows, X)
    BY <1>2 DEF ContactsForDate
  <2>3. ContactsForDate(day) \in Seq(T) /\ ToSet(ContactsForDate(day)) = X
    BY <2>1, <2>2, KeptRows
  <2>4. ContactsForDate(day) # <<>> <=> X # {}
    BY <2>3, SomeRows
  <2>5. X # {} <=> day \in DatesWithContacts
    BY <1>2 DEF DatesWithContacts
  <2> QED BY <2>3, <2>4, <2>5 DEF IsSeq
<1> QED BY <1>1, <1>2

(***************************************************************************)
(* Preview and exporter go by the same parks and summits.                  *)
(***************************************************************************)
LEMMA SameReferences ==
  ASSUME NEW day
  PROVE  /\ PotaRefsForDate(day) = AllParks(ContactsForDate(day))
         /\ SotaRefsForDate(day) = AllSummits(ContactsForDate(day))
BY DEF PotaRefsForDate, SotaRefsForDate, AllParks, AllSummits

(***************************************************************************)
(* logContact() gives a row the mode of its modem.                         *)
(***************************************************************************)
LEMMA NewRowsHaveTheirMode ==
  ASSUME NEW id, NEW fields, NEW my
  PROVE  HasItsMode(Row(id, fields, my))
<1>1. /\ Row(id, fields, my).mode = AdifMode(my.modem).mode
      /\ Row(id, fields, my).submode = AdifMode(my.modem).submode
  BY DEF Row
<1>2. <<AdifMode(my.modem).mode, AdifMode(my.modem).submode>> \in AdifPairs
  BY DEF AdifMode, AdifPairs
<1> QED BY <1>1, <1>2 DEF HasItsMode

(***************************************************************************)
(* Contacts are logged only while no dialog is open, and nothing else      *)
(* reaches the database.                                                   *)
(***************************************************************************)
LEMMA ExportInvariance == Spec => []ExportInv
<1>1. Init => ExportInv
  <2> SUFFICES ASSUME Init PROVE ExportInv
    OBVIOUS
  <2>1. db.rows = OldRows
    BY DEF Init, Opened, Unopened
  <2>2. ~dialog.open
    BY DEF Init, Closed
  <2> QED BY <2>1, <2>2, DeskAssumption DEF ExportInv, ToSet
<1>2. IInv /\ ExportInv /\ [Next]_vars => ExportInv'
  <2> SUFFICES ASSUME IInv, ExportInv, [Next]_vars PROVE ExportInv'
    OBVIOUS
  <2>a. ASSUME UNCHANGED <<db, dialog>> PROVE ExportInv'
    <3>1. Preview(dialog.asOf)' = Preview(dialog.asOf)
      BY <2>a DEF Preview, ContactCountForDate, PotaRefsForDate, SotaRefsForDate,
                  ContactsForDate
    <3> QED BY <2>a, <3>1 DEF ExportInv
  <2>b. ASSUME NEW d, Dialog(d), d.open => d.lines = Preview(d.asOf) PROVE ExportInv'
    <3>1. dialog' = d /\ db' = db
      BY <2>b DEF Dialog
    <3>2. Preview(d.asOf)' = Preview(d.asOf)
      BY <3>1 DEF Preview, ContactCountForDate, PotaRefsForDate, SotaRefsForDate,
                  ContactsForDate
    <3> QED BY <2>b, <3>1, <3>2 DEF ExportInv
  <2>c. ASSUME NEW option PROVE Refreshed(option).lines = Preview(Refreshed(option).asOf)
    BY DEF Refreshed
  <2>1. ASSUME NEW m \in Messages, Receive(m) PROVE ExportInv'
    BY <2>1, <2>a DEF Receive, deskVars
  <2>2. ASSUME NEW c \in Calls, ClickCall(c) PROVE ExportInv'
    BY <2>2, <2>a DEF ClickCall, deskVars
  <2>3. ASSUME NEW yes \in BOOLEAN, AnswerReplace(yes) PROVE ExportInv'
    BY <2>3, <2>a DEF AnswerReplace, deskVars
  <2>4. CASE Operate
    BY <2>4, <2>a DEF Operate, deskVars
  <2>5. ASSUME NEW works \in BOOLEAN, Log(works) PROVE ExportInv'
    <3> DEFINE r == Row(db.next, Fields, station)
    <3>1. ~dialog.open /\ dialog' = dialog
      BY <2>5 DEF Log, Idle
    <3>2. PICK T : db.rows \in Seq(T)
      BY DEF IInv, StoreInv, Numbered, IsSeq
    <3>3. db' = db \/ db' = Grown(db, r)
      BY <2>5 DEF Log, LogContact, Grown
    <3>4. db'.rows = db.rows \/ db'.rows = Append(db.rows, r)
      BY <3>3 DEF Grown, IInv, StoreInv, Numbered
    <3>5. HasItsMode(r)
      BY NewRowsHaveTheirMode
    <3> HIDE DEF r
    <3>6. ToSet(Append(db.rows, r)) = ToSet(db.rows) \union {r}
      <4>1. db.rows \in Seq(T \union {r}) /\ r \in T \union {r}
        BY <3>2
      <4> QED BY <4>1, AppendedRow
    <3>7. \A x \in ToSet(db'.rows) : HasItsMode(x)
      BY <3>4, <3>5, <3>6 DEF ExportInv
    <3> QED BY <3>1, <3>7 DEF ExportInv
  <2>6. CASE Update
    BY <2>6, <2>a, UpdateKeepsThePanel DEF IInv, Update
  <2>7. CASE Delete
    BY <2>7, <2>a, DeleteKeepsThePanel DEF IInv, Delete
  <2>8. CASE KeepRow
    BY <2>8, <2>a DEF KeepRow, deskVars
  <2>9. CASE OpenExport
    BY <2>9, <2>b, <2>c DEF OpenExport
  <2>10. CASE CancelExport
    BY <2>10, <2>b DEF CancelExport, Closed
  <2>11. ASSUME NEW option \in {Current} \union Days, ChooseDate(option) PROVE ExportInv'
    BY <2>11, <2>b, <2>c DEF ChooseDate
  <2>12. ASSUME NEW written \in BOOLEAN, Export(written) PROVE ExportInv'
    <3>1. PICK d \in {Closed, dialog} : Dialog(d)
      BY <2>12 DEF Export
    <3>2. d.open => d.lines = Preview(d.asOf)
      BY <3>1 DEF Closed, ExportInv
    <3> QED BY <3>1, <3>2, <2>b
  <2>13. CASE Change
    BY <2>13, <2>a DEF Change
  <2>14. CASE UNCHANGED vars
    BY <2>14, <2>a DEF vars, deskVars
  <2> QED
    BY <2>1, <2>2, <2>3, <2>4, <2>5, <2>6, <2>7, <2>8, <2>9, <2>10, <2>11, <2>12,
       <2>13, <2>14 DEF Next
<1> QED BY <1>1, <1>2, AlwaysIInv, PTL DEF Spec

-----------------------------------------------------------------------------
\* The names of some files, or of the lines of a preview.
NamesOf(files) == {FileName(f) : f \in files}

(***************************************************************************)
(* The names of three kinds of files, or lines, together.                  *)
(***************************************************************************)
LEMMA NamesOfKinds ==
  ASSUME NEW a, NEW b, NEW c, NEW na, NEW nb, NEW nc,
         NamesOf(a) = na, NamesOf(b) = nb, NamesOf(c) = nc
  PROVE  NamesOf(a \union b \union c) = na \union nb \union nc
<1>1. NamesOf(a \union b \union c) = NamesOf(a) \union NamesOf(b) \union NamesOf(c)
  BY DEF NamesOf
<1> QED BY <1>1

(***************************************************************************)
(* ADR-047 for any contacts: the preview shows exactly the files that will *)
(* be written, because the dialog's queries and the exporter agree on the  *)
(* parks and summits of a date, and nothing is logged under the dialog     *)
(* (ExportDialog.cpp, AdifExporter.cpp:112-210).                           *)
(***************************************************************************)
THEOREM AlwaysPreviewNamesTheFiles == Spec => []PreviewNamesTheFiles
<1>1. IInv /\ ExportInv => PreviewNamesTheFiles
  <2> SUFFICES ASSUME IInv, ExportInv, dialog.open
               PROVE  {FileName(line) : line \in dialog.lines}
                        = {FileName(f) : f \in ExportDate(ContactsForDate(dialog.asOf))}
    BY DEF PreviewNamesTheFiles
  <2> DEFINE day == dialog.asOf
             parks == PotaRefsForDate(day)
             summits == SotaRefsForDate(day)
             logged == ContactsForDate(day)
             Line(park, summit) ==
               [park |-> park, summit |-> summit, count |-> Len(logged)]
             parkNames == {[park |-> <<p>>, summit |-> <<>>] : p \in parks}
             summitNames == {[park |-> <<>>, summit |-> <<s>>] : s \in summits}
             names == parkNames \union (IF parks = {} THEN summitNames ELSE {})
                                \union {[park |-> <<>>, summit |-> <<>>]}
  <2>1. dialog.lines = Preview(day)
    BY DEF ExportInv
  <2>2. Len(logged) = 0 <=> logged = <<>>
    <3>1. PICK T : logged \in Seq(T)
      BY RowsOfTheDay DEF IInv, StoreInv, IsSeq
    <3> QED BY <3>1, EmptySeq
  <2>3. parks = AllParks(logged) /\ summits = AllSummits(logged)
    BY SameReferences
  <2>4. CASE logged = <<>>
    BY <2>1, <2>2, <2>4 DEF Preview, ContactCountForDate, ExportDate
  <2>5. CASE logged # <<>>
    <3>1. Preview(day) = {Line(<<p>>, <<>>) : p \in parks}
             \union (IF parks = {} THEN {Line(<<>>, <<s>>) : s \in summits} ELSE {})
             \union {Line(<<>>, <<>>)}
      BY <2>2, <2>5 DEF Preview, ContactCountForDate
    <3>2. ExportDate(logged) = {ParkFile(logged, p) : p \in parks}
             \union (IF parks = {} THEN {SummitFile(logged, s) : s \in summits} ELSE {})
             \union {GeneralFile(logged)}
      BY <2>3, <2>5 DEF ExportDate
    <3>3. /\ \A p : FileName(Line(<<p>>, <<>>)) = [park |-> <<p>>, summit |-> <<>>]
          /\ \A s : FileName(Line(<<>>, <<s>>)) = [park |-> <<>>, summit |-> <<s>>]
          /\ FileName(Line(<<>>, <<>>)) = [park |-> <<>>, summit |-> <<>>]
      BY DEF FileName
    <3>4. /\ \A p : FileName(ParkFile(logged, p)) = [park |-> <<p>>, summit |-> <<>>]
          /\ \A s : FileName(SummitFile(logged, s)) = [park |-> <<>>, summit |-> <<s>>]
          /\ FileName(GeneralFile(logged)) = [park |-> <<>>, summit |-> <<>>]
      BY DEF FileName, ParkFile, SummitFile, GeneralFile
    <3> DEFINE none == [park |-> <<>>, summit |-> <<>>]
               parkLines == {Line(<<p>>, <<>>) : p \in parks}
               summitLines == {Line(<<>>, <<s>>) : s \in summits}
               otherLines == IF parks = {} THEN summitLines ELSE {}
               parkFiles == {ParkFile(logged, p) : p \in parks}
               summitFiles == {SummitFile(logged, s) : s \in summits}
               otherFiles == IF parks = {} THEN summitFiles ELSE {}
               otherNames == IF parks = {} THEN summitNames ELSE {}
    <3> HIDE DEF parks, summits, logged, day, Line
    <3>5. /\ NamesOf(parkLines) = parkNames /\ NamesOf(otherLines) = otherNames
          /\ NamesOf({Line(<<>>, <<>>)}) = {none}
      <4>1. NamesOf(parkLines) = parkNames
        BY <3>3 DEF NamesOf
      <4>2. NamesOf(summitLines) = summitNames /\ NamesOf({}) = {}
        BY <3>3 DEF NamesOf
      <4>3. NamesOf({Line(<<>>, <<>>)}) = {none}
        BY <3>3 DEF NamesOf
      <4> QED BY <4>1, <4>2, <4>3
    <3>6. /\ NamesOf(parkFiles) = parkNames /\ NamesOf(otherFiles) = otherNames
          /\ NamesOf({GeneralFile(logged)}) = {none}
      <4>1. NamesOf(parkFiles) = parkNames
        BY <3>4 DEF NamesOf
      <4>2. NamesOf(summitFiles) = summitNames /\ NamesOf({}) = {}
        BY <3>4 DEF NamesOf
      <4>3. NamesOf({GeneralFile(logged)}) = {none}
        BY <3>4 DEF NamesOf
      <4> QED BY <4>1, <4>2, <4>3
    <3>7. /\ Preview(day) = parkLines \union otherLines \union {Line(<<>>, <<>>)}
          /\ ExportDate(logged) = parkFiles \union otherFiles \union {GeneralFile(logged)}
          /\ names = parkNames \union otherNames \union {none}
      BY <3>1, <3>2
    <3> HIDE DEF none, names, parkNames, parkLines, parkFiles, otherNames, otherLines,
                 otherFiles
    <3>8. NamesOf(parkLines \union otherLines \union {Line(<<>>, <<>>)})
            = parkNames \union otherNames \union {none}
      BY ONLY <3>5, NamesOfKinds
    <3>9. NamesOf(parkFiles \union otherFiles \union {GeneralFile(logged)})
            = parkNames \union otherNames \union {none}
      BY ONLY <3>6, NamesOfKinds
    <3>10. NamesOf(Preview(day)) = NamesOf(ExportDate(logged))
      BY ONLY <3>7, <3>8, <3>9
    <3> QED BY <2>1, <3>10 DEF NamesOf, day, logged
  <2> QED BY <2>4, <2>5
<1> QED BY <1>1, AlwaysIInv, ExportInvariance, PTL

-----------------------------------------------------------------------------
(***************************************************************************)
(* makeRecord(): a record is of its row, and has a mode of ADIF if the row *)
(* has one or the name of a modem.                                         *)
(***************************************************************************)
LEMMA RecordOfRow ==
  ASSUME NEW row, NEW park, NEW summit
  PROVE  /\ Record(row, park, summit).id = row.id
         /\ HasItsMode(row) =>
              <<Record(row, park, summit).mode, Record(row, park, summit).submode>>
                \in AdifPairs
<1> DEFINE submode == IF row.submode = "" THEN "HAVEN-FSK" ELSE row.submode
           mode == IF row.mode \notin {"", "DIGITAL"} THEN row.mode
                   ELSE IF submode = "PSK31" THEN "PSK" ELSE "MFSK"
<1>1. /\ Record(row, park, summit).id = row.id
      /\ Record(row, park, summit).mode = mode
      /\ Record(row, park, summit).submode = submode
  BY DEF Record
<1>2. HasItsMode(row) => <<mode, submode>> \in AdifPairs
  BY DEF HasItsMode, AdifPairs
<1> HIDE DEF mode, submode
<1> QED BY <1>1, <1>2

(***************************************************************************)
(* The records of a file are those of the contacts chosen for it, in their *)
(* order.                                                                  *)
(***************************************************************************)
LEMMA RecordsOfRows ==
  ASSUME NEW chosen, NEW rows, ToSet(chosen) \subseteq rows,
         \A r \in rows : HasItsMode(r),
         NEW park, NEW summit, NEW records, DOMAIN records = DOMAIN chosen,
         \A i \in DOMAIN chosen : \E p, s : records[i] = Record(chosen[i], p, s)
  PROVE  /\ Ids(records) = Ids(chosen)
         /\ \A r \in ToSet(records) : <<r.mode, r.submode>> \in AdifPairs
<1>1. \A i \in DOMAIN chosen : records[i].id = chosen[i].id
  <2>1. \A row, p, s : Record(row, p, s).id = row.id
    BY RecordOfRow
  <2> QED BY <2>1
<1>2. \A i \in DOMAIN chosen : HasItsMode(chosen[i])
  BY DEF ToSet
<1>3. \A i \in DOMAIN chosen : <<records[i].mode, records[i].submode>> \in AdifPairs
  BY <1>2, RecordOfRow
<1> QED BY <1>1, <1>3 DEF Ids, ToSet

(***************************************************************************)
(* A park's file: its contacts, and no mode that is not of ADIF.           *)
(***************************************************************************)
LEMMA ParkFileOfRows ==
  ASSUME NEW T, NEW rows \in Seq(T), \A r \in ToSet(rows) : HasItsMode(r), NEW p
  PROVE  LET ofPark == Kept(rows, {c \in ToSet(rows) : Contains(c.parks, p)})
             records == ParkFile(rows, p).records
         IN  /\ Ids(records) = Ids(ofPark)
             /\ \A r \in ToSet(records) : <<r.mode, r.submode>> \in AdifPairs
<1> DEFINE ofPark == Kept(rows, {c \in ToSet(rows) : Contains(c.parks, p)})
           records == ParkFile(rows, p).records
<1>1. ToSet(ofPark) \subseteq ToSet(rows)
  BY KeptRows
<1>2. records = [i \in DOMAIN ofPark |-> Record(ofPark[i], <<p>>, FirstSummit(rows))]
  BY DEF ParkFile, Records
<1> HIDE DEF ofPark, records
<1>3. /\ DOMAIN records = DOMAIN ofPark
      /\ \A i \in DOMAIN ofPark : \E q, s : records[i] = Record(ofPark[i], q, s)
  BY <1>2
<1>4. /\ Ids(records) = Ids(ofPark)
      /\ \A r \in ToSet(records) : <<r.mode, r.submode>> \in AdifPairs
  BY <1>1, <1>3, RecordsOfRows
<1> QED BY <1>4 DEF ofPark, records

(***************************************************************************)
(* A summit's file likewise.                                               *)
(***************************************************************************)
LEMMA SummitFileOfRows ==
  ASSUME NEW T, NEW rows \in Seq(T), \A r \in ToSet(rows) : HasItsMode(r), NEW s
  PROVE  LET ofSummit == Kept(rows, {c \in ToSet(rows) : c.summit = <<s>>})
             records == SummitFile(rows, s).records
         IN  /\ Ids(records) = Ids(ofSummit)
             /\ \A r \in ToSet(records) : <<r.mode, r.submode>> \in AdifPairs
<1> DEFINE ofSummit == Kept(rows, {c \in ToSet(rows) : c.summit = <<s>>})
           records == SummitFile(rows, s).records
<1>1. ToSet(ofSummit) \subseteq ToSet(rows)
  BY KeptRows
<1>2. records = [i \in DOMAIN ofSummit |-> Record(ofSummit[i], <<>>, <<s>>)]
  BY DEF SummitFile, Records
<1> HIDE DEF ofSummit, records
<1>3. /\ DOMAIN records = DOMAIN ofSummit
      /\ \A i \in DOMAIN ofSummit : \E q, u : records[i] = Record(ofSummit[i], q, u)
  BY <1>2
<1>4. /\ Ids(records) = Ids(ofSummit)
      /\ \A r \in ToSet(records) : <<r.mode, r.submode>> \in AdifPairs
  BY <1>1, <1>3, RecordsOfRows
<1> QED BY <1>4 DEF ofSummit, records

(***************************************************************************)
(* The general file has every contact.                                     *)
(***************************************************************************)
LEMMA GeneralFileOfRows ==
  ASSUME NEW rows, \A r \in ToSet(rows) : HasItsMode(r)
  PROVE  LET records == GeneralFile(rows).records
         IN  /\ Ids(records) = Ids(rows)
             /\ \A r \in ToSet(records) : <<r.mode, r.submode>> \in AdifPairs
<1> DEFINE records == GeneralFile(rows).records
           Park(c) == IF c.parks = <<>> THEN <<>> ELSE <<Head(c.parks)>>
<1>1. records = [i \in DOMAIN rows |-> Record(rows[i], Park(rows[i]), rows[i].summit)]
  BY DEF GeneralFile, Records
<1> HIDE DEF records, Park
<1>2. /\ DOMAIN records = DOMAIN rows
      /\ \A i \in DOMAIN rows : \E q, u : records[i] = Record(rows[i], q, u)
  BY <1>1
<1>3. /\ Ids(records) = Ids(rows)
      /\ \A r \in ToSet(records) : <<r.mode, r.submode>> \in AdifPairs
  BY <1>2, RecordsOfRows
<1> QED BY <1>3 DEF records

(***************************************************************************)
(* For any contacts and earlier sessions, the files of a date hold its     *)
(* contacts, none overwrites another, and every record has a mode and      *)
(* submode of ADIF (AdifExporter.cpp:51-210).                              *)
(***************************************************************************)
THEOREM AlwaysFilesCoverTheDay == Spec => []FilesCoverTheDay
<1>1. IInv /\ ExportInv => FilesCoverTheDay
  <2> DEFINE day == SelectedDate(dialog.option)
             logged == ContactsForDate(day)
             files == ExportDate(logged)
             parks == PotaRefsForDate(day)
             summits == SotaRefsForDate(day)
             File(park, summit, rows) ==
               \E f \in files : /\ f.park = park /\ f.summit = summit
                                /\ Ids(f.records) = Ids(rows)
  <2> SUFFICES ASSUME IInv, ExportInv
               PROVE  /\ \A p \in parks : File(<<p>>, <<>>, ContactsForDateAndPark(day, p))
                      /\ parks = {} =>
                           \A s \in summits :
                             File(<<>>, <<s>>, ContactsForDateAndSota(day, <<s>>))
                      /\ files # {} <=> day \in DatesWithContacts
                      /\ files # {} => File(<<>>, <<>>, logged)
                      /\ \A f, g \in files : FileName(f) = FileName(g) => f = g
                      /\ \A f \in files : \A r \in ToSet(f.records) :
                           <<r.mode, r.submode>> \in AdifPairs
    BY DEF FilesCoverTheDay
  <2>1. PICK T : logged \in Seq(T)
    BY RowsOfTheDay DEF IInv, StoreInv, IsSeq
  <2>2. \A r \in ToSet(logged) : HasItsMode(r)
    <3>1. ToSet(logged) \subseteq ToSet(db.rows)
      BY RowsOfTheDay DEF IInv, StoreInv
    <3> QED BY <3>1 DEF ExportInv
  <2>3. logged # <<>> <=> day \in DatesWithContacts
    BY RowsOfTheDay DEF IInv, StoreInv
  <2>4. parks = AllParks(logged) /\ summits = AllSummits(logged)
    BY SameReferences
  <2>5. /\ files = IF logged = <<>> THEN {}
                   ELSE {ParkFile(logged, p) : p \in parks}
                        \union (IF parks = {} THEN {SummitFile(logged, s) : s \in summits}
                                ELSE {})
                        \union {GeneralFile(logged)}
    BY <2>4 DEF ExportDate
  <2>6. logged = <<>> => parks = {} /\ summits = {}
    BY <2>4 DEF AllParks, AllSummits, ToSet
  <2>7. \A p : /\ ContactsForDateAndPark(day, p)
                    = Kept(logged, {c \in ToSet(logged) : Contains(c.parks, p)})
               /\ ContactsForDateAndSota(day, <<p>>)
                    = Kept(logged, {c \in ToSet(logged) : c.summit = <<p>>})
    BY DEF ContactsForDateAndPark, ContactsForDateAndSota
  <2>8. ASSUME NEW p
        PROVE  LET f == ParkFile(logged, p)
               IN  /\ f.park = <<p>> /\ f.summit = <<>>
                   /\ Ids(f.records) = Ids(ContactsForDateAndPark(day, p))
                   /\ \A r \in ToSet(f.records) : <<r.mode, r.submode>> \in AdifPairs
    <3>1. ParkFile(logged, p).park = <<p>> /\ ParkFile(logged, p).summit = <<>>
      BY DEF ParkFile
    <3> HIDE DEF logged
    <3> QED BY <2>1, <2>2, <2>7, <3>1, ParkFileOfRows
  <2>9. ASSUME NEW s
        PROVE  LET f == SummitFile(logged, s)
               IN  /\ f.park = <<>> /\ f.summit = <<s>>
                   /\ Ids(f.records) = Ids(ContactsForDateAndSota(day, <<s>>))
                   /\ \A r \in ToSet(f.records) : <<r.mode, r.submode>> \in AdifPairs
    <3>1. SummitFile(logged, s).park = <<>> /\ SummitFile(logged, s).summit = <<s>>
      BY DEF SummitFile
    <3> HIDE DEF logged
    <3> QED BY <2>1, <2>2, <2>7, <3>1, SummitFileOfRows
  <2>10. LET f == GeneralFile(logged)
         IN  /\ f.park = <<>> /\ f.summit = <<>> /\ Ids(f.records) = Ids(logged)
             /\ \A r \in ToSet(f.records) : <<r.mode, r.submode>> \in AdifPairs
    <3>1. GeneralFile(logged).park = <<>> /\ GeneralFile(logged).summit = <<>>
      BY DEF GeneralFile
    <3> HIDE DEF logged
    <3> QED BY <2>2, <3>1, GeneralFileOfRows
  <2> HIDE DEF files, logged, parks, summits, day
  <2>11. \A p \in parks : File(<<p>>, <<>>, ContactsForDateAndPark(day, p))
    <3> SUFFICES ASSUME NEW p \in parks
                 PROVE  File(<<p>>, <<>>, ContactsForDateAndPark(day, p))
      OBVIOUS
    <3>1. ParkFile(logged, p) \in files
      BY <2>5, <2>6
    <3> QED BY <2>8, <3>1
  <2>12. parks = {} => \A s \in summits :
           File(<<>>, <<s>>, ContactsForDateAndSota(day, <<s>>))
    <3> SUFFICES ASSUME parks = {}, NEW s \in summits
                 PROVE  File(<<>>, <<s>>, ContactsForDateAndSota(day, <<s>>))
      OBVIOUS
    <3>1. SummitFile(logged, s) \in files
      BY <2>5, <2>6
    <3> QED BY <2>9, <3>1
  <2>13. files # {} <=> logged # <<>>
    BY <2>5
  <2>14. files # {} => File(<<>>, <<>>, logged)
    <3> SUFFICES ASSUME files # {} PROVE File(<<>>, <<>>, logged)
      OBVIOUS
    <3>1. GeneralFile(logged) \in files
      BY <2>5, <2>13
    <3> QED BY <2>10, <3>1
  <2>15. ASSUME NEW f \in files
         PROVE  \/ f = GeneralFile(logged)
                \/ \E p \in parks : f = ParkFile(logged, p)
                \/ \E s \in summits : f = SummitFile(logged, s)
    BY <2>5
  <2>16. ASSUME NEW f \in files, NEW g \in files, FileName(f) = FileName(g) PROVE f = g
    <3>1. f.park = g.park /\ f.summit = g.summit
      BY <2>16 DEF FileName
    <3>2. \A x : <<x>> # <<>> /\ \A y : <<x>> = <<y>> => x = y
      OBVIOUS
    <3> DEFINE KnownByName(h) ==
                 /\ h.park = <<>> /\ h.summit = <<>> => h = GeneralFile(logged)
                 /\ \A p : h.park = <<p>> => h = ParkFile(logged, p)
                 /\ \A s : h.park = <<>> /\ h.summit = <<s>> => h = SummitFile(logged, s)
    <3>3. ASSUME NEW h \in files PROVE KnownByName(h)
      <4>1. CASE h = GeneralFile(logged)
        BY <2>10, <3>2, <4>1
      <4>2. ASSUME NEW p \in parks, h = ParkFile(logged, p) PROVE KnownByName(h)
        <5>1. h.park = <<p>>
          BY <2>8, <4>2
        <5> QED BY <3>2, <4>2, <5>1
      <4>3. ASSUME NEW s \in summits, h = SummitFile(logged, s) PROVE KnownByName(h)
        <5>1. h.park = <<>> /\ h.summit = <<s>>
          BY <2>9, <4>3
        <5> QED BY <3>2, <4>3, <5>1
      <4> QED BY <2>15, <4>1, <4>2, <4>3
    <3>4. CASE f = GeneralFile(logged)
      BY <2>10, <3>1, <3>3, <3>4
    <3>5. ASSUME NEW p \in parks, f = ParkFile(logged, p) PROVE f = g
      <4>1. g.park = <<p>>
        BY <2>8, <3>1, <3>5
      <4> QED BY <3>3, <3>5, <4>1
    <3>6. ASSUME NEW s \in summits, f = SummitFile(logged, s) PROVE f = g
      <4>1. g.park = <<>> /\ g.summit = <<s>>
        BY <2>9, <3>1, <3>6
      <4> QED BY <3>3, <3>6, <4>1
    <3> QED BY <2>15, <3>4, <3>5, <3>6
  <2>17. ASSUME NEW f \in files, NEW r \in ToSet(f.records)
         PROVE  <<r.mode, r.submode>> \in AdifPairs
    BY <2>8, <2>9, <2>10, <2>15
  <2> QED BY <2>3, <2>11, <2>12, <2>13, <2>14, <2>16, <2>17
<1> QED BY <1>1, AlwaysIInv, ExportInvariance, PTL
=============================================================================
