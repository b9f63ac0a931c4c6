------------------------- MODULE MCTsForeignStream -------------------------
(* Packets for checking the reader against arbitrary input.                *)
EXTENDS TsForeignStream

Packet(pid, start, c, fault, body) ==
  [pid |-> pid, start |-> start, cc |-> c, rai |-> start /\ c = 0,
   fault |-> fault, body |-> body]

Piece1(sec, off, len, total, ptr) ==
  [kind |-> "psi", sec |-> sec, off |-> off, len |-> len, total |-> total,
   ptr |-> ptr]

PAT1 == [table |-> "pat", programs |-> <<[number |-> 0, pid |-> 16],
                                         [number |-> 1, pid |-> 4096]>>]
EmptyPAT == [table |-> "pat", programs |-> <<[number |-> 0, pid |-> 16]>>]
PMT1 == [table |-> "pmt", streams |-> <<[type |-> 15, pid |-> 300],
                                        [type |-> 27, pid |-> 256],
                                        [type |-> 36, pid |-> 257]>>]
AudioPMT == [table |-> "pmt", streams |-> <<[type |-> 15, pid |-> 300]>>]
Corrupt == [table |-> "crc", programs |-> << >>]

Empty == [kind |-> "none"]

MCTablePackets ==
  { Packet(pidPAT, TRUE, 0, "none", Piece1(PAT1, 0, 20, 20, TRUE)),
    Packet(pidPAT, TRUE, 0, "none", Piece1(EmptyPAT, 0, 16, 16, TRUE)),
    Packet(pidPAT, TRUE, 0, "error", Piece1(PAT1, 0, 20, 20, TRUE)),
    Packet(pidPAT, TRUE, 0, "none", Piece1(PAT1, 0, 20, 20, FALSE)),
    Packet(pidPAT, FALSE, 0, "none", Piece1(PAT1, 0, 20, 20, TRUE)),
    Packet(pidPAT, TRUE, 0, "none", Piece1(Corrupt, 0, 20, 20, TRUE)),
    Packet(pidPAT, TRUE, 0, "none", Empty),
    Packet(4096, TRUE, 0, "none", Piece1(PMT1, 0, 180, 300, TRUE)),
    Packet(4096, FALSE, 1, "none", Piece1(PMT1, 180, 120, 300, TRUE)),
    Packet(4096, TRUE, 0, "scrambled", Piece1(AudioPMT, 0, 22, 22, TRUE)),
    Packet(4096, TRUE, 0, "none", Piece1(PAT1, 0, 20, 20, TRUE)) }

PES(kind, p, d, len) == [ptsDTS |-> kind, pts |-> p, dts |-> d, len |-> len]

ES(pid, start, c, fault, len, pes) ==
  Packet(pid, start, c, fault,
         [kind |-> "es", au |-> 0, off |-> 0, len |-> len, pes |-> pes])

NoPES == PES("none", 0, 0, 0)

MCStreamPackets ==
       {ES(256, TRUE, c, "none", 184, PES("both", 5, 3, 19)) : c \in CC}
  \cup {ES(256, FALSE, c, "none", 184, NoPES) : c \in CC}
  \cup {ES(256, TRUE, 1, "none", 14, PES("pts", 6, 0, 14)),
        ES(256, TRUE, 1, "none", 184, NoPES),
        ES(256, FALSE, 1, "scrambled", 184, NoPES),
        ES(256, TRUE, 1, "error", 184, PES("pts", 7, 0, 14)),
        ES(257, TRUE, 0, "none", 184, PES("pts", 2, 0, 14)),
        ES(300, TRUE, 0, "none", 184, PES("pts", 2, 0, 14)),
        Packet(256, FALSE, 1, "none", Empty) }
=============================================================================
