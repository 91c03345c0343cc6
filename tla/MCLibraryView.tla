---------------------------- MODULE MCLibraryView ----------------------------
(* A Vita with two photos and a song, another with two photos under the same numbers;
   the first photo can be deleted and added again, which shifts the pages. *)
EXTENDS LibraryView, SequencesExt

MCLibrary == [v \in Vitas |-> [k \in Kinds |-> IF k = "photo" THEN {1, 2} ELSE {1}]]
MCInOrder == [via \in {"usb", "wifi"} |->
                [ns \in SUBSET Ids |-> IF via = "usb" THEN SetToSortSeq(ns, <) ELSE SetToSortSeq(ns, >)]]
MCChanging == {<<Cabled, "photo", 1>>}
=============================================================================
