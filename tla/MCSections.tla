----------------------------- MODULE MCSections -----------------------------
(* Small instances of Sections, with their listing.                          *)
EXTENDS Listing

MCNoDP == -1
MCAddresses == {-1, 0, 2, 3}

(* More than a call emits, and nothing, and less.                            *)
MCCounts == {-1, 0, 1, 3}

=============================================================================
