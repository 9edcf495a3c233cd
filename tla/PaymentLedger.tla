--------------------------- MODULE PaymentLedger ---------------------------
(***************************************************************************)
(* What the receipt side of the admissions module promises, with no        *)
(* request, transaction or counter in sight.  The ledger is a set of live  *)
(* entries.  An entry is recorded under a number and, when the money came  *)
(* by bank transfer, under that transfer's reference; it may later be      *)
(* voided, which frees the reference.  Numbers drawn automatically from    *)
(* the tenant's own series are spent for good: voiding gives none back.    *)
(***************************************************************************)
EXTENDS Integers

CONSTANTS Entries,      \* identities of ledger entries
          Numbers,      \* receipt numbers
          References,   \* bank-transfer references
          NoReference   \* money that came without one

VARIABLES book,         \* the live entries: records [id, no, ref, drawn]
          spent         \* numbers ever drawn from the tenant's own series

lvars == <<book, spent>>

Entry == [id : Entries, no : Numbers, ref : References \cup {NoReference},
          drawn : BOOLEAN]

LInit == book = {} /\ spent = {}

\* A new entry has a number and a reference of its own among the live ones,
\* and a number drawn from the series was never drawn before.
Fresh(e) ==
    /\ \A b \in book : b.id # e.id /\ b.no # e.no
    /\ \A b \in book : e.ref # NoReference => b.ref # e.ref
    /\ e.drawn => e.no \notin spent

Record(e) ==
    /\ Fresh(e)
    /\ book' = book \cup {e}
    /\ spent' = IF e.drawn THEN spent \cup {e.no} ELSE spent

Void(e) ==
    /\ e \in book
    /\ book' = book \ {e}
    /\ UNCHANGED spent

\* The entry recorded is the one the book has gained: Next ranges over the
\* new book, so that the specification can be checked with infinitely many
\* numbers.
LNext == \/ \E e \in book' \ book : e \in Entry /\ Record(e)
         \/ \E e \in book : Void(e)

LSpec == LInit /\ [][LNext]_lvars
=============================================================================
