------------------------------ MODULE MCSysload ------------------------------
EXTENDS Sysload

\* Fields of struct cfg_bentry the loader reads; ins is the content of the
\* insfile the entry names, bootmap the scheme of its bootmap URI and
\* bmInitrd whether the bootmap program has an initrd.
Entry(a, k, i, p, insName, insLines, bm, bmi) ==
    [action |-> a, kernel |-> k, initrd |-> i, parmfile |-> p,
     insfile |-> insName, ins |-> insLines, bootmap |-> bm, bmInitrd |-> bmi]

\* An s390 insfile: a comment, then kernel, initrd, parmfile and the
\* 4-byte initrd size at their usual load addresses.
KernelLine == [kind |-> "file", uri |-> "good", size |-> "big",
               gzip |-> FALSE, printable |-> FALSE, addr |-> "0x0"]
InitrdLine == [kind |-> "file", uri |-> "good", size |-> "big",
               gzip |-> TRUE, printable |-> FALSE, addr |-> "0x800000"]
ParmLine   == [kind |-> "file", uri |-> "good", size |-> "small",
               gzip |-> FALSE, printable |-> TRUE, addr |-> "0x10480"]
SizeLine   == [kind |-> "file", uri |-> "good", size |-> "four",
               gzip |-> FALSE, printable |-> FALSE, addr |-> "0x10414"]
MCInsfile == <<Comment, KernelLine, InitrdLine, ParmLine, SizeLine>>

MCEntries ==
    { Entry("kernel", "good", "good", "good", "", <<>>, "", FALSE),
      Entry("kernel", "scp", "", "", "", <<>>, "", FALSE),
      Entry("kernel", "", "", "", "", <<>>, "", FALSE),
      Entry("insfile", "", "", "", "good", MCInsfile, "", FALSE),
      Entry("insfile", "", "", "", "", <<>>, "", FALSE),
      Entry("bootmap", "", "", "good", "", <<>>, "dasd", TRUE),
      Entry("bootmap", "", "", "", "", <<>>, "zfcp", FALSE),
      Entry("bootmap", "", "", "", "", <<>>, "other", FALSE),
      Entry("reboot", "", "", "", "", <<>>, "", FALSE),
      Entry("halt", "", "", "", "", <<>>, "", FALSE),
      Entry("shell", "", "", "", "", <<>>, "", FALSE),
      Entry("exit", "", "", "", "", <<>>, "", FALSE) }

MCCompFiles == <<"file_1", "file_2", "file_3", "file_4">>
=============================================================================
