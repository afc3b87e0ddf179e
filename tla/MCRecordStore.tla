--------------------------- MODULE MCRecordStore ---------------------------
(* Instances of RecordStore for TLC. Ids, texts and users are interchangeable. *)
EXTENDS RecordStore, TLC
CONSTANTS r1, r2, c1, c2, c3, c4, a, b, u1, u2, w1, adm

RecordsDef == {r1, r2}
Changes3 == {c1, c2, c3}
Changes4 == {c1, c2, c3, c4}
TextsDef == {a, b}
OneUser == {u1}
TwoUsers == {u1, u2}
OneWorker == {w1}
OneAdmin == {adm}

Symmetry == Permutations(ChangeIds) \cup Permutations(Records)
              \cup Permutations(Texts) \cup Permutations(Users)
=============================================================================
