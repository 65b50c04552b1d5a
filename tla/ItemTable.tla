----------------------------- MODULE ItemTable -----------------------------
(***************************************************************************)
(* What the reviewer is promised of the item list of a job: a numbered     *)
(* table of declaration rows in which every operation changes exactly what *)
(* the reviewer asked for, and nothing of the reviewer's survives the      *)
(* evidence it was entered against.                                        *)
(*                                                                         *)
(* There is no overlay here: ItemOverlay keeps one and implements this.    *)
(***************************************************************************)
EXTENDS Integers, Sequences, SequencesExt

CONSTANTS
    Pins,      \* the channels reconciled against the shipment authority
    NoNumber,  \* a number that is computed, not entered
    None       \* null

VARIABLES
    rows,      \* the table; the position is the serial number
    totals,    \* the shipment totals the reviewer corrected, or None
    version    \* which extraction of the invoices the table is of

tableVars == <<rows, totals, version>>

\* A row nobody has touched since it was extracted or added.
Untouched(r) ==
    /\ r.description = None
    /\ \A n \in DOMAIN r.number : r.number[n] = NoNumber
    /\ r.hs = None
    /\ r.bms = None

\* The rows are the same rows, and differ in the given columns at most.
ChangesOnly(columns) ==
    /\ DOMAIN rows' = DOMAIN rows
    /\ \A i \in DOMAIN rows : \A c \in DOMAIN rows[i] \ columns :
          rows'[i][c] = rows[i][c]

Init == rows = <<>> /\ totals = None /\ version = 0

\* One new untouched row, the others in their order around it.
Add ==
    /\ UNCHANGED <<totals, version>>
    /\ Len(rows') = Len(rows) + 1
    /\ \E at \in DOMAIN rows' :
          /\ RemoveAt(rows', at) = rows
          /\ \A i \in DOMAIN rows : rows[i].id # rows'[at].id
          /\ rows'[at].of = 0
          /\ Untouched(rows'[at])

\* One row goes, never the last one.
Delete ==
    /\ UNCHANGED <<totals, version>>
    /\ Len(rows) > 1
    /\ \E at \in DOMAIN rows : rows' = RemoveAt(rows, at)

\* The entered columns of one row.
Edit ==
    /\ UNCHANGED <<totals, version>>
    /\ ChangesOnly({"description", "coo", "number"})
    /\ \E at \in DOMAIN rows : \A i \in DOMAIN rows \ {at} : rows'[i] = rows[i]

\* One country for every row.
SetAllCoo ==
    /\ UNCHANGED <<totals, version>>
    /\ ChangesOnly({"coo"})
    /\ \A i, j \in DOMAIN rows : rows'[i].coo = rows'[j].coo

\* One code for the chosen rows.
SelectHs ==
    /\ UNCHANGED <<totals, version>>
    /\ ChangesOnly({"hs"})
    /\ \E chosen \in DOMAIN rows : \A i \in DOMAIN rows :
          rows'[i].hs \in {rows[i].hs, rows'[chosen].hs}

\* The export-only columns.
EditBms ==
    /\ UNCHANGED <<totals, version>>
    /\ ChangesOnly({"bms"})

SetTotals == UNCHANGED <<rows, version>>

\* The invoices changed: the table is the new extraction's, as it came.
NewItems ==
    /\ UNCHANGED totals
    /\ version' # version
    /\ \A i \in DOMAIN rows' : /\ rows'[i].of = version'
                               /\ rows'[i].coo = "printed"
                               /\ Untouched(rows'[i])

\* The air waybill or the packing list changed: what was reconciled against
\* it goes, and nothing else.
NewShipment ==
    /\ UNCHANGED version
    /\ totals' = None
    /\ ChangesOnly({"number"})
    /\ \A i \in DOMAIN rows : \A n \in DOMAIN rows[i].number :
          rows'[i].number[n] = IF n \in Pins THEN NoNumber ELSE rows[i].number[n]

Next ==
    \/ Add \/ Delete \/ Edit \/ SetAllCoo \/ SelectHs \/ EditBms \/ SetTotals
    \/ NewItems \/ NewShipment

Spec == Init /\ [][Next]_tableVars
============================================================================
