---------------------------- MODULE MCFieldParser ----------------------------
(***************************************************************************)
(* Fields of every kind with bytes of eight values, well-formed and not,   *)
(* alone or with another one after them.                                   *)
(***************************************************************************)
EXTENDS FieldParser

MCIdOf ==
    [Zip64 |-> 1, Ntfs |-> 10, Timestamp |-> 11, UnicodeComment |-> 12,
     UnicodeName |-> 13, UnixNew |-> 14, Aes |-> 15]

Laid(id, bytes, good) ==
    [id |-> "Raw", number |-> IdOf[id], bytes |-> bytes, good |-> good]
Unknown(number, bytes) ==
    [id |-> "Raw", number |-> number, bytes |-> bytes, good |-> TRUE]

\* Of the Zip64 kind, and a tag of an NTFS field, by their 64-bit numbers.
Wide(values) == [id |-> "Zip64", values |-> values]
TagOf(typ, times) == [typ |-> typ, times |-> times]
Clock(tags) == [id |-> "Ntfs", tags |-> tags]
Stamp(bits, times) == [id |-> "Timestamp", bits |-> bits, times |-> times]
Unicode(id, text) == [id |-> id, crc |-> 9, text |-> text]

GoodFields ==
    {Wide(<< >>), Wide(<< 1 >>), Wide(<< 300, 1, 0 >>),
     Clock(<< >>), Clock(<< TagOf(1, << 300, 0, 1 >>) >>),
     Clock(<< TagOf(2, << 1 >>), TagOf(1, << 1, 2, 3, 4 >>) >>),
     Stamp({1}, << 300 >>), Stamp({4}, << 0 >>),
     Stamp({1, 2, 4}, << 1, 2, 3 >>),
     Stamp({}, << 5 >>), Stamp({1, 2}, << 5 >>), Stamp({}, << >>),
     Unicode("UnicodeName", << 3, 4 >>), Unicode("UnicodeComment", << >>),
     [id |-> "Aes", check_crc32 |-> TRUE, method |-> 8],
     [id |-> "Aes", check_crc32 |-> FALSE, method |-> 0],
     Laid("UnixNew", << 1, 1, 5, 2, 5, 5 >>, TRUE),
     Laid("UnixNew", << 1, 0, 0 >>, TRUE),
     Unknown(3, << >>), Unknown(16, << 1, 0, 0 >>), Unknown(0, << >>)}

BadFields ==
    {Laid("Zip64", Zeros(7), FALSE),
     Laid("Ntfs", Zeros(3), FALSE),
     Laid("Ntfs", << 0, 0, 0, 0, 1, 0, 1, 0 >>, FALSE),
     Laid("Ntfs", << 0, 0, 0, 0, 1, 0, 0, 2 >> \o Zeros(16), FALSE),
     Laid("Ntfs", << 0, 0, 0, 0, 2, 0, 0 >>, FALSE),
     Laid("Timestamp", << >>, FALSE),
     Laid("Timestamp", << 1 >>, FALSE),
     Laid("Timestamp", << 2, 1, 1, 1 >>, FALSE),
     Laid("Timestamp", << 3 >> \o Zeros(12), FALSE),
     Laid("UnicodeName", << 2, 0, 0, 0, 0 >>, FALSE),
     Laid("UnicodeName", << 1, 0, 0, 0 >>, FALSE),
     Laid("UnicodeComment", << 1, 0, 0, 0, 0, NotUtf8 >>, FALSE),
     Laid("UnixNew", << 1 >>, FALSE),
     Laid("UnixNew", << 1, 2, 5, 1 >>, FALSE),
     Laid("UnixNew", << 1, 1, 5, 0, 0 >>, FALSE),
     Laid("Aes", << 3, 0 >> \o Bytes(Vendor, 2) \o << 1, 0, 0 >>, FALSE),
     Laid("Aes", << 1, 0, 0, 0, 1, 0, 0 >>, FALSE),
     Laid("Aes", << 1, 0 >> \o Bytes(Vendor, 2) \o << 4, 0, 0 >>, FALSE),
     Laid("Aes", << 1, 0 >> \o Bytes(Vendor, 2) \o << 1, 0, 0, 0 >>, FALSE)}

MCGiven ==
    {<< >>} \cup { << f >> : f \in GoodFields \cup BadFields }
        \cup { << f, g >> : f \in GoodFields,
                 g \in { Stamp({1}, << 2 >>), Wide(<< 1 >>), Unknown(0, << >>),
                         Laid("UnicodeName", << 2, 0, 0, 0, 0 >>, FALSE) } }
===============================================================================
