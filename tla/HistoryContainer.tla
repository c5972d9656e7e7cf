--------------------------- MODULE HistoryContainer ---------------------------
(***************************************************************************)
(* HistoryContainer.h: values over time in a deque, oldest first, several  *)
(* of one time allowed.  A history is a sequence of records with a field   *)
(* "time"; an iterator is an index into it and Len(h) + 1 is end().        *)
(***************************************************************************)
EXTENDS Integers, Sequences

Smallest(S) == CHOOSE n \in S : \A m \in S : n <= m

end(h) == Len(h) + 1

newest_timestamp(h) == h[Len(h)].time

is_strictly_newest(h, tv) == h = <<>> \/ newest_timestamp(h) < tv

is_valid_to_push_newest(h, tv) == h = <<>> \/ tv >= newest_timestamp(h)

\* The first element newer than tv; the first as new as tv.
upper_bound(h, tv) == Smallest({i \in 1..end(h) : i = end(h) \/ h[i].time > tv})
lower_bound(h, tv) == Smallest({i \in 1..end(h) : i = end(h) \/ h[i].time >= tv})

\* The last element that is not newer than tv, or end().
closest_older(h, tv) ==   \* mutant
  IF lower_bound(h, tv) = 1 THEN end(h) ELSE lower_bound(h, tv) - 1
closest_not_newer(h, tv) ==
  IF upper_bound(h, tv) = 1 THEN end(h) ELSE upper_bound(h, tv) - 1

get_range_newer_than(h, tv) == SubSeq(h, upper_bound(h, tv), Len(h))

\* lower_bound giving end() is read as "found nothing", and nothing is removed.
pop_before(h, tv) ==
  IF lower_bound(h, tv) = end(h) /\ is_strictly_newest(h, tv)
    THEN h ELSE SubSeq(h, lower_bound(h, tv), Len(h))

pop_after(h, tv) == SubSeq(h, 1, upper_bound(h, tv) - 1)

push_newest(h, entry) == Append(h, entry)

Chronological(h) == \A i, j \in DOMAIN h : i < j => h[i].time <= h[j].time
=============================================================================
