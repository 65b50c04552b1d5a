-------------------------- MODULE MC_ItemOverlay --------------------------
(***************************************************************************)
(* ItemOverlay on two extracted rows and one or two manual ones.           *)
(***************************************************************************)
EXTENDS ItemOverlay

NoNumbers == [x \in {} |-> Absent]

RequestOf(description, coo, numbers) ==
    [description |-> description, coo |-> coo,
     number |-> [n \in Numbers |-> IF n \in DOMAIN numbers THEN numbers[n] ELSE Absent]]

Number(n, q) == [x \in {n} |-> q]

\* One field at a time, and the two weights together.  A weight of one quarter
\* of the last decimal is stored as zero; a carton count that is not a whole
\* hundredth is refused.
MCRequests ==
    {RequestOf("edited", None, NoNumbers), RequestOf(None, "", NoNumbers),
     RequestOf(None, None, Number("net_weight", 1)),
     RequestOf(None, None, Number("net_weight", 6)),
     RequestOf(None, None, Number("net_weight", Clear)),
     RequestOf(None, None, Number("gross_weight", 8)),
     RequestOf(None, None, Number("gross_weight", 8) @@ Number("net_weight", 4)),
     RequestOf(None, None, Number("carton_count", 3)),
     RequestOf(None, None, Number("supplementary_quantity", 4))}
============================================================================
