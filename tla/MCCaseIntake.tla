----------------------------- MODULE MCCaseIntake -----------------------------
(* Packages of every profile, sound and not.  The two of each instance share *)
(* a file or not, and the identity that one claims may be requested for the *)
(* other.                                                                   *)
EXTENDS CaseIntake, TLC

Euros(n) == [amount |-> n, currency |-> "EUR", exponent |-> 2]

MCMaximums == ("EUR" :> 10) @@ ("JPY" :> 10)
\* One amount at the precision of its currency, one finer.
MCEntries == {[text |-> Text(50, 3), currency |-> "EUR"], [text |-> Text(15, 1), currency |-> "JPY"]}

Unread == [refusal |-> None, entries |-> ("a.txt" :> "f") @@ ("b.txt" :> "g"), untyped |-> {},
           json |-> {}, manifest |-> None, signed |-> FALSE, balances |-> FALSE]

Claiming(profile, paths, declared) ==
  [Unread EXCEPT !.entries = (Manifest :> "m") @@ paths, !.json = {Manifest} \cup DOMAIN paths,
     !.manifest = [profile |-> profile, declared |-> declared, complete |-> TRUE,
                   identity |-> "TXN", credit |-> Euros(5)]]

Brokered == [Claiming(V1, (Signature :> "s") @@ ("a.txt" :> "f"), "a.txt" :> "f") EXCEPT !.signed = TRUE]
Declaration(paths) == Claiming(Legacy, paths, "contract.json" :> "c")

MCContents ==
  {("p1" :> a[1]) @@ ("p2" :> a[2]) : a \in {
     <<Brokered, Unread>>,
     <<[Brokered EXCEPT !.signed = FALSE], [Unread EXCEPT !.refusal = "UNSUPPORTED_ARTIFACT_TYPE"]>>,
     <<[Brokered EXCEPT !.manifest.declared = "a.txt" :> "h"],
       [Unread EXCEPT !.entries = "a.txt" :> "h", !.untyped = {"a.txt"}]>>,
     <<[Brokered EXCEPT !.manifest.credit = Euros(11)], Claiming("another", "a.txt" :> "h", "a.txt" :> "h")>>,
     <<Declaration(("contract.json" :> "c") @@ ("interface.json" :> "i")), [Unread EXCEPT !.refusal = "ARCHIVE_STRUCTURE_INVALID"]>>}}

\* Fewer packages, where nothing depends on what they hold.
OneFile == {("p1" :> Brokered) @@ ("p2" :> Unread)}

=============================================================================
