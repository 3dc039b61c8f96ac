---------------------------- MODULE MCSessionReads ----------------------------
(* A finite instance of the reads: pages of one session, a page number and a *)
(* page size that are clamped, a filter, and a start that overflows.         *)
EXTENDS SessionReads

CONSTANTS b1, p1

Asked(page, size, sort, asc, problem) ==
    [page |-> page, size |-> size, sort |-> sort, asc |-> asc,
     status |-> NoFilter, brand |-> NoFilter, problem |-> problem]

MCQuery ==
    {Asked(1, 1, "created_at", TRUE, NoFilter), Asked(2, 1, "created_at", TRUE, NoFilter),
     Asked(0, 7, "last_activity", FALSE, p1), Asked(1, 2, "status", TRUE, NoFilter),
     Asked(7, 2, "created_at", TRUE, NoFilter)}
=============================================================================
