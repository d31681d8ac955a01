-------------------------------- MODULE Ledger --------------------------------
(***************************************************************************)
(* The cash-basis books, as operators on a value: lib/accounting/post.ts.  *)
(*                                                                         *)
(* A journal entry is known by its reference, which is the key of its      *)
(* idempotence; debit and credit being equal, one signed amount stands for *)
(* both, positive when money comes in.  Beside the journal each channel    *)
(* has a tracked account whose balance postings move.                      *)
(***************************************************************************)
EXTENDS Integers

\* No entry, and the tracked account empty.
NewBooks(refs) == [entry |-> [r \in refs |-> 0], reversed |-> {}, account |-> 0]

BooksOver(refs) == [entry : [refs -> Int], reversed : SUBSET refs, account : Int]

Posted(b, r) == b.entry[r] # 0

\* postJournalEntry and recordCashAccountMovement: a reference posts once.
Post(b, r, amount) ==
    IF Posted(b, r) THEN b
    ELSE [b EXCEPT !.entry[r] = amount, !.account = @ + amount]

\* reverseJournalEntry: the opposite entry under a key of its own, once, and none
\* where nothing was posted.  It moves no tracked account.
Reverse(b, r) == IF Posted(b, r) THEN [b EXCEPT !.reversed = @ \cup {r}] ELSE b

\* What the journal says of a reference: the entry and its reversal.
Balance(b, r) == IF r \in b.reversed THEN 0 ELSE b.entry[r]
=============================================================================
