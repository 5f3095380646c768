------------------------------ MODULE MCApplets ------------------------------
(***************************************************************************)
(* An ME 8.1 and a CSE 11.1 platform.  p1 has two blobs for each and one   *)
(* for a newer API level, p2 shares a blob with p1, p3 has none that fits. *)
(***************************************************************************)
EXTENDS Applets, TLC

CONSTANTS a1, a2, p1, p2, p3

Element(platform, fw, version, blob) ==
  [platform |-> platform, appletVersion |-> version, fwVersion |-> fw, blob |-> blob]
File(applets) == [loads |-> TRUE, validates |-> TRUE, applets |-> applets]

Dalp ==
  (p1 :> File(<<Element("ME", <<7, 1, 0>>, <<1, 0>>, "b0"),
                Element("ME", <<8, 0, 0>>, <<1, 0>>, "b1"),
                Element("ME", <<8, 1, 0>>, <<1, 1>>, "b2"),
                Element("CSE", <<11, 0, 0>>, <<1, 0>>, "b1"),
                Element("CSE", <<11, 2, 0>>, <<1, 2>>, "b3"),
                Element("CSE", <<11, 1, 0>>, <<1, 1>>, "b2")>>)) @@
  (p2 :> File(<<Element("ME", <<8, 0, 0>>, <<1, 0>>, "b1"),
                Element("CSE", <<11, 0, 0>>, <<1, 0>>, "b1")>>)) @@
  (p3 :> File(<<Element("ME", <<9, 0, 0>>, <<1, 0>>, "b1"),
                Element("CSE", <<11, 2, 0>>, <<1, 0>>, "b3")>>))

Asked == {<<a1, p1, "dalp">>, <<a1, p2, "dalp">>, <<a1, p3, "dalp">>, <<a1, p2, "acp">>,
          <<a2, p2, "dalp">>}
Fw == "v1" :> <<8, 1, 0>> @@ "v2" :> <<11, 1, 0>>
=============================================================================
