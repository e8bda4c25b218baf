----------------------------- MODULE MCProfileForm -----------------------------
(* A licensee whose old callsign is answered with the new one's record, and *)
(* another whose record states no coordinate and a district apart.          *)
EXTENDS ProfileForm

MCCallsigns == {"W8A", "W5B", "K8OLD"}

W8A == [callsign |-> "W8A", state |-> "MI", lat |-> "42"]
W5B == [callsign |-> "W5B", state |-> "", lat |-> ""]

MCLicence == [c \in MCCallsigns |-> IF c = "W5B" THEN W5B ELSE W8A]
MCDistrictOf == [c \in MCCallsigns |-> IF c = "W5B" THEN "5" ELSE "8"]
MCTyped ==
  [f \in Fields |->
     CASE f = "callsign"     -> MCCallsigns \cup {Blank}
       [] f = "state"        -> {Blank, "MI", "TX"}
       [] f = "lat"          -> {Blank, "42"}
       [] f = "callDistrict" -> {Blank, "5", "8"}]
=============================================================================
