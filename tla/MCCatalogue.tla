----------------------------- MODULE MCCatalogue -----------------------------
(* Four captures of two jobs and two page groups. The first three have the     *)
(* same content on one day, two of one job and one of the other; the last is   *)
(* the only capture of its page, and its status is not 2xx.                    *)
EXTENDS PublicReads

MCCaptures == 1..4
MCJobOf == <<1, 1, 2, 2>>
MCGroupOf == <<1, 1, 1, 2>>
MCTimeOf == <<2, 3, 2, 5>>
MCDayOf == <<1, 1, 1, 2>>
MCHashOf == <<1, 1, 1, 2>>
MCQualityOf == <<2, 0, 2, 1>>
MCRootRank == <<0, 1>>
MCCommandBound == [t \in BOOLEAN |-> IF t THEN 1 ELSE 2]
MCLinksOf == <<{2}, {}, {}, {}>>
=============================================================================
