---------------------------- MODULE AdifExporter ----------------------------
(***************************************************************************)
(* src/log/AdifExporter: the files that the contacts of one date become.   *)
(* A file is its name - [park], [summit] or neither, the call and the date *)
(* being the same for all of them - and its records in order; a record is  *)
(* the row it is made of and the fields the file adds to it.               *)
(*                                                                         *)
(* parks is a sequence of references, summit one of at most one.           *)
(***************************************************************************)
EXTENDS Naturals, SequencesExt, Selection

\* Mutant: the mode of an older row goes out as it is.
RecordAsStored(row, park, summit) ==
  [id |-> row.id, mode |-> row.mode, submode |-> row.submode, band |-> row.band,
   mySig |-> park, sotaRef |-> summit]

\* makeRecord(): a row of a database older than the ADIF modes holds the mode
\* DIGITAL, or none, and is mapped by its submode.  The station worked's own
\* parks go only into the records of a park.
Record(row, park, summit) ==
  LET submode == IF row.submode = "" THEN "HAVEN-FSK" ELSE row.submode
      mode == IF row.mode \notin {"", "DIGITAL"} THEN row.mode
              ELSE IF submode = "PSK31" THEN "PSK" ELSE "MFSK"
  IN [id |-> row.id, mode |-> mode, submode |-> submode, band |-> row.band,
      mySig |-> park, sotaRef |-> summit]

AllParks(contacts) == UNION {ToSet(c.parks) : c \in ToSet(contacts)}
AllSummits(contacts) == UNION {ToSet(c.summit) : c \in ToSet(contacts)}

\* allSotaRefs.first(): the summit of the first contact that has one.
FirstSummit(contacts) ==
  LET withOne == SelectSeq(contacts, LAMBDA c : c.summit # <<>>)
  IN  IF withOne = <<>> THEN <<>> ELSE withOne[1].summit

Records(chosen, park(_), summit(_)) ==
  [i \in DOMAIN chosen |-> Record(chosen[i], park(chosen[i]), summit(chosen[i]))]

\* One file for each park; every record has the first summit of the date.
ParkFile(contacts, p) ==
  LET ofPark == Kept(contacts, {c \in ToSet(contacts) : Contains(c.parks, p)})
  IN [park |-> <<p>>, summit |-> <<>>,
      records |-> Records(ofPark, LAMBDA c : <<p>>, LAMBDA c : FirstSummit(contacts))]

\* One file for each summit, when there is no park.
SummitFile(contacts, s) ==
  LET ofSummit == Kept(contacts, {c \in ToSet(contacts) : c.summit = <<s>>})
  IN [park |-> <<>>, summit |-> <<s>>,
      records |-> Records(ofSummit, LAMBDA c : <<>>, LAMBDA c : <<s>>)]

\* The general file: a contact made from several parks has the first of them.
GeneralFile(contacts) ==
  [park |-> <<>>, summit |-> <<>>,
   records |-> Records(contacts,
                       LAMBDA c : IF c.parks = <<>> THEN <<>> ELSE <<Head(c.parks)>>,
                       LAMBDA c : c.summit)]

\* exportDate(), every file of which could be written.
ExportDate(contacts) ==
  IF contacts = <<>> THEN {}
  ELSE {ParkFile(contacts, p) : p \in AllParks(contacts)}
       \union (IF AllParks(contacts) = {}
                 THEN {SummitFile(contacts, s) : s \in AllSummits(contacts)}
                 ELSE {})
       \union {GeneralFile(contacts)}

FileName(f) == [park |-> f.park, summit |-> f.summit]
=============================================================================
