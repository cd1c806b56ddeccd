----------------------------- MODULE MCRomTree -----------------------------
(* RomTree on small instances. *)
EXTENDS RomTree, TLC

CONSTANTS
    pack, disc, arcade,     \* an archive and what is in it
    single, plain,          \* a .gz of one file, which has the name of disc
    track,                  \* a ROM of another system with the same extension
    apple, crlf, lf,        \* junk, a script before and after
    megadrive, gba, psx,
    macosx, forks, kept,    \* directories called __MACOSX: of psx, ports and the quarantine
    t1, t2

HoldsValue == [c \in Contents |-> CASE c = pack -> {disc, arcade} \intersect Contents
                                    [] c = single -> {plain}
                                    [] OTHER -> {}]
NameOfValue == (pack :> "pack.zip") @@ (disc :> "x.bin") @@ (arcade :> "a.zip")
               @@ (single :> "x.bin.gz") @@ (plain :> "x.bin") @@ (track :> "x.bin")
               @@ (apple :> "._c.bin") @@ (crlf :> "r.sh") @@ (lf :> "r.sh")
ExtOfValue == ("pack.zip" :> "zip") @@ ("x.bin" :> "bin") @@ ("a.zip" :> "zip")
              @@ ("x.bin.gz" :> "gz") @@ ("._c.bin" :> "bin") @@ ("r.sh" :> "sh")
SystemsValue == << [folder |-> megadrive, exts |-> {"md", "bin"}],
                   [folder |-> gba, exts |-> {"gba"}],
                   [folder |-> psx, exts |-> {"cue", "bin", "chd"}] >>
File(d, c) == [dir |-> d, name |-> NameOf[c], dup |-> 0, what |-> c, whole |-> TRUE]
CardsValue == {{File(Inbox, pack), File(Inbox, single)},
               {File(Inbox, pack), File(psx, track)},
               {File(Inbox, plain), File(macosx, track), File(psx, apple), File(Ports, crlf)},
               {File(Inbox, pack), File(forks, crlf)}}
SubOfValue == [c \in Contents |-> IF c = disc THEN 1 ELSE 0]
UnderValue == (macosx :> psx) @@ (forks :> Ports) @@ (kept :> Quarantine)
UnixValue == crlf :> lf
=============================================================================
