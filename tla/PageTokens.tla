----------------------------- MODULE PageTokens -----------------------------
(***************************************************************************)
(* The arithmetic of listResources (src/driver/paging.go): tokens count    *)
(* items from one, the API's pages are as large as MaxEntries.             *)
(***************************************************************************)
EXTENDS Integers

\* Mutants: the first page is not counted from one; the rest of the token is
\* not skipped; the token is made zero-based before the remainder is taken.
FirstPageLate(t, max) == IF max > 0 THEN (t + 1) \div max + 1 ELSE 1
FirstSkipNone(t, max) == IF max > 0 THEN 0 ELSE t
FirstSkipZeroBased(t, max) == IF max > 0 THEN (t % max) - 1 ELSE t

\* The first page to ask for, and how much of the token is left for it.
FirstPage(t, max) == IF max > 0 THEN t \div max + 1 ELSE 1
FirstSkip(t, max) == IF max > 0 THEN t % max ELSE t

\* How many items of a page precede the starting token.
Skipped(left, size) ==
    IF left = 0 THEN 0 ELSE IF left > size THEN size ELSE left - 1

\* The token of the item after MaxEntries items.
NextToken(t, max) == IF t = 0 THEN t + max + 1 ELSE t + max

-----------------------------------------------------------------------------
\* The position of the first item that is returned for a token, when the list
\* is long enough and the API grants pages of MaxEntries items.
Reached(t, max) ==
    (FirstPage(t, max) - 1) * max + Skipped(FirstSkip(t, max), max) + 1

=============================================================================
