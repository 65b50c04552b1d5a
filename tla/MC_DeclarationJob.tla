-------------------------- MODULE MC_DeclarationJob -------------------------
(***************************************************************************)
(* Small jobs for TLC: which documents there can be, and what extraction   *)
(* can return.                                                             *)
(***************************************************************************)
EXTENDS DeclarationJob, TLC

CONSTANTS inv, inv2, pack, x, y

\* A single invoice.
RoleInvoice == inv :> "INVOICE"
FileInvoice == inv :> "f1"

\* An invoice, and a packing list.
RoleInvoicePacking == inv :> "INVOICE" @@ pack :> "PACKING_LIST"
FileInvoicePacking == inv :> "f1" @@ pack :> "f2"

\* An invoice, and the corrected invoice that replaces it.
FileInvoices == inv :> "f1" @@ inv2 :> "f2"

\* Two uploads of one and the same invoice file.
RoleTwins == inv :> "INVOICE" @@ inv2 :> "INVOICE"
FileTwins == inv :> "f1" @@ inv2 :> "f1"

\* One extraction result, and two that differ only in what the fingerprint
\* does not cover: same invoice number, date and total, other item lines.
ShownOne  == x :> "total1"
ShownSame == x :> "total1" @@ y :> "total1"

Symmetric == Permutations(Clients)
=============================================================================
