---------------------------- MODULE MCBootFlow -----------------------------
(* Two attempts per update; the default boot order, one without the reset   *)
(* at its end, and network boot after the card and after the eMMC.          *)
EXTENDS BootFlow
CONSTANTS lost, torn
MCMaxCount == 2
MCValue == [update_system : SystemNumbers, update_boot_count : 0..MCMaxCount,
            active_system : SystemNumbers]
MCDefault == Block("0", 0, "0")
MCNCopies == 192 \div 64
MCNvChoices == {<<>>, <<"system", "sdcard">>, <<"sdcard", "net">>, <<"system", "net">>}
=============================================================================
