----------------------------- MODULE MCFastboot -----------------------------
(* Instances of Fastboot: a sector of 3 bytes, transfers of 2 sectors.     *)
EXTENDS Fastboot

Raw(n) == [type |-> "raw", len |-> n, ok |-> TRUE]
Skip(n) == [type |-> "dont_care", len |-> n, ok |-> TRUE]

Img(id, len, chunks, zeros) ==
    [id |-> id, sparse |-> chunks # <<>>, chunks |-> chunks, len |-> len,
     zeros |-> zeros, signed |-> chunks = <<>>]

RawImg  == Img("raw", 13, <<>>, {})
(* A chunk header split between two transfers.                             *)
Split   == Img("split", 18, <<Raw(6), Skip(3), Raw(3), Skip(3)>>, {})
(* An extent split inside a sector, and an empty one.                      *)
Torn    == Img("torn", 12, <<Skip(3), Raw(3), Raw(0), Skip(3)>>, {})
Unknown == Img("unknown", 8, <<Raw(3), [type |-> "fill", len |-> 3, ok |-> TRUE]>>, {})
(* A boot image whose last transfer begins with padding, and one without.  *)
Padded  == Img("padded", 8, <<>>, {7, 8})
Plain   == Img("plain", 7, <<>>, {})
(* Sizes the download command refuses.                                     *)
Large   == Img("large", 24, <<>>, {})
Empty   == Img("empty", 0, <<>>, {})

Flash(p, img) == <<[op |-> "type", ptn |-> p], [op |-> "download", img |-> img],
                   [op |-> "flash", ptn |-> p]>>

AllImages == {RawImg, Split, Torn, Unknown, Padded, Plain, Large, Empty}

AllScripts ==
    {Flash("system", img) : img \in {RawImg, Split, Torn, Unknown, Empty}} \cup
    {Flash("boot", img) : img \in {Padded, Plain, Large}} \cup
    {Flash("gone", Plain), Flash("gone", RawImg),
     <<[op |-> "type", ptn |-> ""]>>,
     <<[op |-> "type", ptn |-> "boot"], [op |-> "download", img |-> Padded],
       [op |-> "checksum"], [op |-> "flash", ptn |-> "boot"]>>,
     <<[op |-> "type", ptn |-> "system"], [op |-> "download", img |-> Torn],
       [op |-> "erase", ptn |-> "system"], [op |-> "flash", ptn |-> "system"]>>,
     <<[op |-> "download", img |-> Padded], [op |-> "boot"]>>,
     <<[op |-> "erase", ptn |-> "system"]>>, <<[op |-> "erase", ptn |-> "gone"]>>,
     <<[op |-> "unlock"], [op |-> "unlock_accept"]>>,
     <<[op |-> "lock"]>>, <<[op |-> "reboot"]>>, <<[op |-> "other"]>>}

ASSUME FlashesItsDownload == ToolScripts

=============================================================================
