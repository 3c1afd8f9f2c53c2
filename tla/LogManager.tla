----------------------------- MODULE LogManager -----------------------------
(***************************************************************************)
(* src/log/LogManager: the SQLite table of contacts.  A row carries the    *)
(* fields MainWindow handed over, and what the manager adds: the id, the   *)
(* band of the frequency, the ADIF mode of the modem.  Text columns that   *)
(* are only copied are one field, entry.                                   *)
(*                                                                         *)
(* open() is called once, by MainWindow's constructor; a database that     *)
(* does not open stays closed for the session.                             *)
(***************************************************************************)
EXTENDS Naturals, SequencesExt, Selection

VARIABLE db    \* [open, rows in the order of id, next: the next id]

Bands ==
  { [name |-> "160m", low |-> 1800000,   high |-> 2000000],
    [name |-> "80m",  low |-> 3500000,   high |-> 4000000],
    [name |-> "60m",  low |-> 5330500,   high |-> 5403500],
    [name |-> "40m",  low |-> 7000000,   high |-> 7300000],
    [name |-> "30m",  low |-> 10100000,  high |-> 10150000],
    [name |-> "20m",  low |-> 14000000,  high |-> 14350000],
    [name |-> "17m",  low |-> 18068000,  high |-> 18168000],
    [name |-> "15m",  low |-> 21000000,  high |-> 21450000],
    [name |-> "12m",  low |-> 24890000,  high |-> 24990000],
    [name |-> "10m",  low |-> 28000000,  high |-> 29700000],
    [name |-> "6m",   low |-> 50000000,  high |-> 54000000],
    [name |-> "2m",   low |-> 144000000, high |-> 148000000] }

BandForHz(hz) ==
  LET found == {b \in Bands : b.low <= hz /\ hz <= b.high}
  IN  IF found = {} THEN "HF" ELSE (CHOOSE b \in found : TRUE).name

\* MODE and SUBMODE of a contact made with the named modem.
AdifMode(modem) ==
  IF modem = "PSK31" THEN [mode |-> "PSK",  submode |-> "PSK31"]
                     ELSE [mode |-> "MFSK", submode |-> "HAVEN-FSK"]

-----------------------------------------------------------------------------
\* The constructor's open(): createSchema() keeps the rows of earlier sessions.
Opened(rows) == [open |-> TRUE, rows |-> rows, next |-> Len(rows) + 1]
Unopened(rows) == [open |-> FALSE, rows |-> rows, next |-> Len(rows) + 1]

\* The row of a contact made from the given station.
Row(id, fields, my) ==
  [id |-> id, band |-> BandForHz(fields.hz), mode |-> AdifMode(my.modem).mode,
   submode |-> AdifMode(my.modem).submode, parks |-> my.parks, summit |-> my.summit,
   entry |-> fields.entry, hz |-> fields.hz, day |-> fields.day, time |-> fields.time]

\* logContact(); works is the outcome of the INSERT.  contactSaved() carries
\* the new id and is connected to nothing.
LogContact(fields, my, works) ==
  db' = IF db.open /\ works
          THEN [db EXCEPT !.rows = Append(@, Row(db.next, fields, my)), !.next = @ + 1]
          ELSE db

\* updateContact(): date, time, mode and the station's own fields are kept.
UpdateContact(id, fields) ==
  db' = IF db.open
          THEN [db EXCEPT !.rows = [i \in DOMAIN @ |->
                  IF @[i].id # id THEN @[i]
                  ELSE [@[i] EXCEPT !.entry = fields.entry, !.hz = fields.hz,
                                    !.band = BandForHz(fields.hz)]]]
          ELSE db

DeleteContact(id) ==
  db' = IF db.open /\ id > 0
          THEN [db EXCEPT !.rows = Kept(@, {r \in ToSet(@) : r.id # id})]
          ELSE db

-----------------------------------------------------------------------------
(***************************************************************************)
(* The queries of a date.  Rows are in the order of time_utc: contacts are *)
(* logged as they happen.                                                  *)
(***************************************************************************)
ContactsForDate(day) ==
  IF db.open THEN Kept(db.rows, {r \in ToSet(db.rows) : r.day = day}) ELSE <<>>

ContactsForDateAndPark(day, park) ==
  LET rows == ContactsForDate(day)
  IN  Kept(rows, {r \in ToSet(rows) : Contains(r.parks, park)})

ContactsForDateAndSota(day, summit) ==
  LET rows == ContactsForDate(day)
  IN  Kept(rows, {r \in ToSet(rows) : r.summit = summit})

DatesWithContacts == IF db.open THEN {r.day : r \in ToSet(db.rows)} ELSE {}

PotaRefsForDate(day) == UNION {ToSet(r.parks) : r \in ToSet(ContactsForDate(day))}

SotaRefsForDate(day) ==
  UNION {ToSet(r.summit) : r \in ToSet(ContactsForDate(day))}

ContactCountForDate(day) == Len(ContactsForDate(day))
=============================================================================
