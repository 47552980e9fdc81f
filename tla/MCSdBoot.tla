----------------------------- MODULE MCSdBoot -----------------------------
(* Small instances of SdBoot for TLC.                                      *)
EXTENDS SdBoot

(* The cards: every kind, as after power-up and as the boot ROM leaves the *)
(* card it loaded BL1 from.                                                *)
Fresh(k, hc, echo) == [NoCard EXCEPT !.kind = k, !.hc = hc, !.echo = echo]
Used(c) == [c EXCEPT !.state = "tran", !.powered = TRUE, !.rca = "rom", !.width = 4]

FreshCards ==
  {Fresh("SD1", FALSE, TRUE), Fresh("SD2", FALSE, TRUE), Fresh("SD2", TRUE, TRUE),
   Fresh("SD2", TRUE, FALSE), Fresh("MMC", FALSE, TRUE), Fresh("MMC", TRUE, TRUE)}
MCInitCards == {NoCard} \cup FreshCards \cup {Used(c) : c \in FreshCards}

(* SRAM is units 10..12: an image below it, one above, one that overlaps,  *)
(* one without signature.                                                  *)
MCImages ==
  {[loadaddr |-> 0, loadsize |-> 1, signed |-> TRUE],
   [loadaddr |-> 13, loadsize |-> 2, signed |-> TRUE],
   [loadaddr |-> 5, loadsize |-> 2, signed |-> TRUE],
   [loadaddr |-> 0, loadsize |-> 1, signed |-> FALSE]}

(* The largest image the check lets through below SRAM.                    *)
TightImages == {[loadaddr |-> 5, loadsize |-> 1, signed |-> TRUE]}
=============================================================================
