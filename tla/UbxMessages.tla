---------------------------- MODULE UbxMessages -----------------------------
(***************************************************************************)
(* The messages that have a decoder, as their headers declare them: the    *)
(* length of the payload and its members in their order, each by its width *)
(* in bytes; reserved bytes, which have no member, are negative.  A table  *)
(* has a head and then a block of members for each entry.                  *)
(***************************************************************************)
EXTENDS Integers, Sequences, SequencesExt

Times(n, w) == [i \in 1..n |-> w]

Message(len, members) == [len |-> len, head |-> members, each |-> 0, block |-> <<>>]
Table(len, members, each, block) == [len |-> len, head |-> members, each |-> each, block |-> block]

Span(w) == IF w < 0 THEN -w ELSE w
Length(members) == FoldLeft(LAMBDA n, w: n + Span(w), 0, members)

\* The members with the place of their first byte.
Places(members) ==
    {<<Length(SubSeq(members, 1, i - 1)), members[i]>> :
        i \in {j \in DOMAIN members : members[j] > 0}}

-----------------------------------------------------------------------------
(* Acknowledgements and navigation.                                        *)

ubx_ack_ack == Message(2, <<1, 1>>)
ubx_ack_nak == Message(2, <<1, 1>>)

\* Time, fix, position and velocity, heading of the vehicle.
ubx_nav_pvt == Message(92,
    <<4, 2, 1, 1, 1, 1, 1, 1, 4, 4>> \o <<1, 1, 1, 1>> \o Times(6, 4)
    \o Times(7, 4) \o <<2, 1, -5>> \o <<4, 2, 2>>)
ubx_nav2_pvt == Message(92,
    <<4, 2, 1, 1, 1, 1, 1, 1, 4, 4>> \o <<1, 1, 1, 1>> \o Times(6, 4)
    \o Times(7, 4) \o <<2, 1, -5>> \o <<4, 2, 2>>)
ubx_nav_dop == Message(18, <<4, 2, 2, 2, 2, 2, 2, 2>>)
ubx_nav2_dop == Message(18, <<4, 2, 2, 2, 2, 2, 2, 2>>)
ubx_nav_eell == Message(16, <<4, 1, -3, 2, 2, 2, -2>>)
ubx_nav2_eell == Message(16, <<4, 1, -3, 2, 2, 2, -2>>)
ubx_nav_timegps == Message(16, <<4, 4, 2, 1, 1, 4>>)
ubx_nav2_timegps == Message(16, <<4, 4, 2, 1, 1, 4>>)
ubx_nav_timeutc == Message(20, <<4, 4, 4, 2, 1, 1, 1, 1, 1, 1>>)
ubx_nav_status == Message(16, <<4, 1, 1, 1, 1, 4, 4>>)
ubx_nav_clock == Message(20, <<4, 4, 4, 4, 4>>)
ubx_nav_att == Message(32, <<4, 1, -3>> \o Times(3, 4) \o Times(3, 4))
ubx_nav_odo == Message(20, <<1, -3, 4, 4, 4, 4>>)
ubx_nav_sat == Table(8, <<4, 1, 1, -2>>, 12, <<1, 1, 1, 1, 2, 2, 4>>)
ubx_nav_sig == Table(8, <<4, 1, 1, -2>>, 16, <<1, 1, 1, 1, 2, 1, 1, 1, 1, 2, -4>>)
ubx_tim_tp == Message(16, <<4, 4, 4, 2, 1, 1>>)

-----------------------------------------------------------------------------
(* Sensors, measurements, monitoring and security.                         *)

ubx_esf_ins == Message(36, <<4, -4, 4>> \o Times(3, 4) \o Times(3, 4))
ubx_esf_status == Table(16, <<4, 1, -7, 1, -2, 1>>, 4, <<1, 1, 1, 1>>)
\* Words of a value and its type; a time tag may follow them.
ubx_esf_meas == Table(8, <<4, 2, 2>>, 4, <<4>>)
ubx_rxm_measx == Table(44,
    <<1, -3, 4, 4, 4, -4, 4>> \o <<2, 2, 2, -2, 2>> \o <<1, 1, -8>>, 24,
    <<1, 1, 1, 1, 4, 4, 2, 2, 4, 1, 1, -2>>)
ubx_mon_io == Table(0, <<>>, 20, <<4, 4, 2, 2, 2, 2, 1, 1, -2>>)
ubx_mon_txbuf == Message(28, Times(6, 2) \o Times(6, 1) \o Times(6, 1) \o <<1, 1, 1, -1>>)
ubx_mon_span == Table(4, <<1, 1, -2>>, 272, <<256, 4, 4, 4, 1, -3>>)
\* Strings of fixed length.
ubx_mon_ver == Table(40, <<30, 10>>, 30, <<30>>)
ubx_sec_crc == Message(8, <<1, 1, 2, 4>>)
ubx_sec_sig == Message(12, <<1, -3, 1, -3, 1, -3>>)
ubx_upd_sos_output == Message(8, <<1, -3, 1, -3>>)

Declared ==
    [ACK_ACK |-> ubx_ack_ack, ACK_NAK |-> ubx_ack_nak, NAV_PVT |-> ubx_nav_pvt,
     NAV_SAT |-> ubx_nav_sat, NAV_DOP |-> ubx_nav_dop, NAV_EELL |-> ubx_nav_eell,
     NAV_TIMEGPS |-> ubx_nav_timegps, NAV_STATUS |-> ubx_nav_status,
     NAV_TIMEUTC |-> ubx_nav_timeutc, NAV_CLOCK |-> ubx_nav_clock, NAV_ATT |-> ubx_nav_att,
     NAV_ODO |-> ubx_nav_odo, NAV_SIG |-> ubx_nav_sig, NAV2_PVT |-> ubx_nav2_pvt,
     NAV2_DOP |-> ubx_nav2_dop, NAV2_EELL |-> ubx_nav2_eell,
     NAV2_TIMEGPS |-> ubx_nav2_timegps, TIM_TP |-> ubx_tim_tp, ESF_INS |-> ubx_esf_ins,
     ESF_STATUS |-> ubx_esf_status, ESF_MEAS |-> ubx_esf_meas, RXM_MEASX |-> ubx_rxm_measx,
     MON_IO |-> ubx_mon_io, MON_TXBUF |-> ubx_mon_txbuf, MON_SPAN |-> ubx_mon_span,
     MON_VER |-> ubx_mon_ver, SEC_CRC |-> ubx_sec_crc, SEC_SIG |-> ubx_sec_sig,
     UPD_SOS |-> ubx_upd_sos_output]
=============================================================================
