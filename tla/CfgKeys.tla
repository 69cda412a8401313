------------------------------- MODULE CfgKeys -------------------------------
(***************************************************************************)
(* The configuration keys that have a name (ubx_config_key.h) and the      *)
(* registry that finds them by it.  A name is its position in the          *)
(* registry, whose rows are in the order of the header.  A key is          *)
(* <<group and identifier, size code>>; below, a key of a group is written *)
(* with its size code in front of the 16 bits of its identifier.           *)
(***************************************************************************)
EXTENDS Integers, Sequences, SequencesExt

Group(group, keys) ==
    [i \in DOMAIN keys |-> <<group * 2^16 + (keys[i] % 2^16), keys[i] \div 2^16>>]

\* Messages have a rate on each port; the names are in the order I2C, SPI, UART1, UART2 and
\* USB, the identifiers in the order I2C, UART1, UART2, USB and SPI.
OnPorts(bases) ==
    Group(\h91, FlattenSeq([i \in DOMAIN bases |->
        [j \in 1..5 |-> 2 * 2^16 + bases[i] + <<0, 4, 1, 2, 3>>[j]]]))

\* The protocols UBX, NMEA, RTCM3 and SPARTN on a port, and the settings of a UART.
Inprot(group) == Group(group, <<\h10001, \h10002, \h10004, \h10005>>)
Outprot(group) == Group(group, <<\h10001, \h10002, \h10004>>)
Uart(group) == Group(group, <<\h40001, \h20002, \h20003, \h20004, \h10005>>)

Ana == Group(\h23, <<\h10001, \h30002>>)
Batch == Group(\h26, <<\h10013, \h10014, \h30015, \h30016, \h10018, \h20019, \h1001A,
                       \h1001B>>)
Bds == Group(\h34, <<\h10014>>)
Geofence == Group(\h24, <<\h20011, \h10012, \h20013, \h20014, \h10020, \h40021, \h40022,
                          \h40023, \h10030, \h40031, \h40032, \h40033, \h10040, \h40041,
                          \h40042, \h40043, \h10050, \h40051, \h40052, \h40053>>)
Hw == Group(\hA3, <<\h1002E, \h1002F, \h10030, \h10031, \h10032, \h10033, \h10034,
                    \h10035, \h20036, \h20037, \h20038, \h20054, \h20055, \h20056,
                    \h20057>>)
I2c == Group(\h51, <<\h20001, \h10002, \h10003>>)
I2cInprot == Inprot(\h71)
I2cOutprot == Outprot(\h72)
Infmsg == Group(\h92, <<\h20001, \h20002, \h20003, \h20004, \h20005, \h20006, \h20007,
                        \h20008, \h20009, \h2000A>>)
Itfm == Group(\h41, <<\h20001, \h20002, \h1000D, \h20010, \h10013>>)
Logfilter == Group(\hDE, <<\h10002, \h10003, \h10004, \h30005, \h30006, \h30007, \h40008>>)
Mot == Group(\h25, <<\h20038, \h3003B>>)
MsgoutNmea == OnPorts(<<\hA6, \hDD, \hBA, \hC9, \hB5, \hCE, \hBF, \hD3, \hC4, \h400,
                        \hAB, \hE7, \hB0, \hD8>>)
MsgoutNmeaNav2 == OnPorts(<<\h661, \h670, \h65C, \h666, \h652>>)
    \o Group(\h91, <<\h20657, \h2065B, \h20658, \h20649, \h2065A>>)
    \o OnPorts(<<\h67F>>)
MsgoutPubx == OnPorts(<<\hEC, \hF1, \hF6>>)
MsgoutRtcm == OnPorts(<<\h2BD, \h35E, \h2CC, \h363, \h2D1, \h368, \h318, \h36D, \h2D6,
                        \h303>>)
    \o Group(\h91, <<\h202FE, \h20302, \h202FF, \h20300>>)
MsgoutUbxEsf == OnPorts(<<\h10F, \h114, \h277, \h29F, \h105>>)
MsgoutUbxLog == OnPorts(<<\h259>>)
MsgoutUbxMon == OnPorts(<<\h34F, \h1B9, \h354, \h1B4, \h1A5, \h196, \h359, \h1A0, \h187,
                          \h38B, \h69D, \h19B>>)
MsgoutUbxNav2 == OnPorts(<<\h430, \h435, \h465, \h565, \h475, \h480, \h485, \h490,
                           \h495, \h500, \h505, \h510, \h515, \h520, \h525, \h530,
                           \h535, \h540, \h545, \h575, \h550, \h555, \h560>>)
MsgoutUbxNav == OnPorts(<<\h1F, \h79, \h65, \h83, \h38, \h313, \h15F, \hA1, \h2E, \h33,
                          \h7E, \h10, \h415, \h24, \h29, \h6, \h8D, \h15, \h6A, \h345,
                          \h336, \h1A, \h88, \h51, \h56, \h4C, \h47, \h60, \h386, \h5B,
                          \h3D, \h42>>)
MsgoutUbxRxm == OnPorts(<<\h6B6, \h204, \h31D>>)
    \o Group(\h91, <<\h2033B, \h2033C, \h2033D, \h2033F, \h2033E>>)
    \o OnPorts(<<\h2A4, \h25E, \h155, \h268, \h231, \h605, \h610>>)
MsgoutUbxSec == OnPorts(<<\h3B2, \h634, \h689>>)
MsgoutUbxTim == OnPorts(<<\h178, \h17D, \h92>>)
Nav2 == Group(\h17, <<\h10001, \h10002>>)
Navhpg == Group(\h14, <<\h20011>>)
Navspg == Group(\h11, <<\h20011, \h10013, \h30017, \h10019, \h2001C, \h20021, \h10025,
                        \h10061, \h50062, \h50063, \h40064, \h40065, \h40066, \h40067,
                        \h40068, \h40069, \h4006A, \h200A1, \h200A2, \h200A3, \h200A4,
                        \h200AA, \h200AB, \h300B1, \h300B2, \h300B3, \h300B4, \h300B5,
                        \h400C1, \h400C2, \h200C4, \h200D6, \h100D7>>)
Nmea == Group(\h93, <<\h20001, \h20002, \h10003, \h10004, \h10005, \h10006, \h20007,
                      \h10011, \h10012, \h10013, \h10015, \h10016, \h10017, \h10021,
                      \h10022, \h10023, \h10024, \h10025, \h10026, \h20031, \h20032,
                      \h30033>>)
Odo == Group(\h22, <<\h10001, \h10002, \h10003, \h10004, \h20005, \h20021, \h20022,
                     \h20031, \h20032>>)
Pm == Group(\hD0, <<\h20001, \h40002, \h40003, \h40004, \h30005, \h40006, \h10007,
                    \h10008, \h1000A, \h2000B, \h1000C, \h1000D, \h1000E, \h4000F,
                    \h10010>>)
Pmp == Group(\hB1, <<\h40011, \h30012, \h10016, \h30017, \h30013, \h10014, \h30015,
                     \h10019, \h5001A>>)
Qzss == Group(\h37, <<\h10005, \h10006, \h10007, \h30008, \h20020, \h20030, \h20050,
                      \h20060, \h20080>>)
Rate == Group(\h21, <<\h30001, \h30002, \h20003, \h20004>>)
Rinv == Group(\hC7, <<\h10001, \h10002, \h20003, \h50004, \h50005, \h50006, \h50007>>)
Rtcm == Group(\h09, <<\h30001, \h30008, \h20009>>)
Sbas == Group(\h36, <<\h10002, \h10003, \h10004, \h10005, \h50006>>)
Sec == Group(\hF6, <<\h10009, \h3000A, \h3000B, \h10051>>)
Sfcore == Group(\h08, <<\h10001, \h30002, \h30003, \h30004, \h40006, \h40007, \h3000F>>)
Sfimu == Group(\h06, <<\h30007, \h20008, \h20009, \h3000A, \h3000B, \h20015, \h20016,
                       \h30017, \h30018, \h1001D, \h2001E, \h2001F, \h30020, \h30021,
                       \h30022, \h10027, \h4002D, \h3002E, \h3002F>>)
Sfodo == Group(\h07, <<\h10001, \h10003, \h10004, \h10005, \h10006, \h40007, \h40008,
                       \h40009, \h3000A, \h2000B, \h1000D, \h3000E, \h1000F, \h10010,
                       \h10011, \h30012, \h30013, \h30014, \h30018, \h1001C>>)
Signal == Group(\h31, <<\h1001F, \h10001, \h10003, \h10004, \h10020, \h10005, \h10021,
                        \h10007, \h10009, \h1000A, \h10022, \h1000D, \h1000E, \h1000F,
                        \h10028, \h10024, \h10012, \h10014, \h10015, \h10017, \h10025,
                        \h10018, \h1001A, \h10026, \h1001D>>)
Spartn == Group(\hA7, <<\h20001>>)
Spi == Group(\h64, <<\h20001, \h10002, \h10003, \h10005, \h10006>>)
SpiInprot == Inprot(\h79)
SpiOutprot == Outprot(\h7A)
Tmode == Group(\h03, <<\h20001, \h20002, \h40003, \h40004, \h40005, \h20006, \h20007,
                       \h20008, \h40009, \h4000A, \h4000B, \h2000C, \h2000D, \h2000E,
                       \h4000F, \h40010, \h40011>>)
Tp == Group(\h05, <<\h20023, \h20030, \h30001, \h40002, \h40003, \h40024, \h40025,
                    \h40004, \h40005, \h5002A, \h5002B, \h40006, \h10007, \h10008,
                    \h10009, \h1000A, \h1000B, \h2000C, \h20035, \h4000D, \h4000E,
                    \h40026, \h40027, \h4000F, \h40010, \h5002C, \h5002D, \h40011,
                    \h10012, \h10013, \h10014, \h10015, \h10016, \h20017, \h20036>>)
Txready == Group(\hA2, <<\h10001, \h10002, \h20003, \h30004, \h20005>>)
Uart1 == Uart(\h52)
Uart1Inprot == Inprot(\h73)
Uart1Outprot == Outprot(\h74)
Uart2 == Uart(\h53)
Uart2Inprot == Inprot(\h75)
Uart2Outprot == Outprot(\h76)
Usb == Group(\h65, <<\h10001, \h10002, \h3000A, \h3000B, \h3000C, \h5000D, \h5000E,
                     \h5000F, \h50010, \h50011, \h50012, \h50013, \h50014, \h50015,
                     \h50016, \h50017, \h50018>>)
UsbInprot == Inprot(\h77)
UsbOutprot == Outprot(\h78)

-----------------------------------------------------------------------------
(* The registry.                                                           *)

\* s_key_table, in nine parts.
GeneralRows ==
    Ana \o Batch \o Bds \o Geofence \o Hw \o I2c \o I2cInprot \o I2cOutprot \o Infmsg
    \o Itfm \o Logfilter \o Mot
NmeaRtcmRateRows == MsgoutNmea \o MsgoutNmeaNav2 \o MsgoutPubx \o MsgoutRtcm
EsfLogMonRateRows == MsgoutUbxEsf \o MsgoutUbxLog \o MsgoutUbxMon
Nav2RateRows == MsgoutUbxNav2
NavRateRows == MsgoutUbxNav
RxmSecTimRateRows == MsgoutUbxRxm \o MsgoutUbxSec \o MsgoutUbxTim
NavigationRows ==
    Nav2 \o Navhpg \o Navspg \o Nmea \o Odo \o Pm \o Pmp \o Qzss \o Rate \o Rinv \o Rtcm
    \o Sbas
SensorRows ==
    Sec \o Sfcore \o Sfimu \o Sfodo \o Signal \o Spartn \o Spi \o SpiInprot
    \o SpiOutprot \o Tmode \o Tp
InterfaceRows ==
    Txready \o Uart1 \o Uart1Inprot \o Uart1Outprot \o Uart2 \o Uart2Inprot
    \o Uart2Outprot \o Usb \o UsbInprot \o UsbOutprot

Registry == FlattenSeq(<<GeneralRows, NmeaRtcmRateRows, EsfLogMonRateRows, Nav2RateRows,
                         NavRateRows, RxmSecTimRateRows, NavigationRows, SensorRows,
                         InterfaceRows>>)

\* A name of no key, as in a setting of a later firmware.
UnknownName == 0

\* lookup_by_name(), and the name lookup_by_id() finds first.
LookupByName(name) == Registry[name]
LookupById(key) == SelectInSeq(Registry, LAMBDA row: row = key)
=============================================================================
