------------------------------- MODULE MCAuth -------------------------------
(***************************************************************************)
(* Small instances of the user module for TLC.                             *)
(***************************************************************************)
EXTENDS AuthProperties, TLC

CONSTANTS r1, r2, r3

(* One person, who sometimes writes her address with a capital; with "odd" *)
(* an address that only the validator would take; two people.              *)
TwoSpellings == {"amina", "Amina"}
LowerTwo == [e \in TwoSpellings |-> "amina"]
ThreeSpellings == {"amina", "Amina", "odd"}
LowerThree == [e \in ThreeSpellings |-> IF e = "odd" THEN "odd" ELSE "amina"]
TwoPeople == {"amina", "bilal"}
LowerPeople == [e \in TwoPeople |-> e]

(* "long!" starts with the 72 bytes of "long" and goes on.                 *)
MCPasswords == {"long", "long!", "other"}
MCFirst72 == [p \in MCPasswords |-> IF p = "long!" THEN "long" ELSE p]
OnePassword == {"secret"}
FirstOne == [p \in OnePassword |-> p]

NoUsers == [u \in Users |-> None]
OneVerified ==
  [u \in Users |-> IF u = 1 THEN [email |-> "amina", password |-> "secret", verified |-> TRUE]
                   ELSE None]
TwoAccounts ==
  [u \in Users |-> [email |-> IF u = 1 THEN "amina" ELSE "bilal",
                    password |-> "secret", verified |-> u = 1]]

AccountRoutes == {"register", "login", "me"}
VerifyRoutes == {"register", "verify"}
SessionRoutes == {"login", "refresh", "logout"}

RequestSymmetry == Permutations(Jtis)
=============================================================================
