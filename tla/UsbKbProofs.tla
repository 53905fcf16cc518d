----------------------------- MODULE UsbKbProofs ----------------------------
(***************************************************************************)
(* The keyboard reports of the dongle, proved for every set of keys and    *)
(* any number of frames and host events: the variables keep their types,   *)
(* and no key is forgotten unless an interrupt preempts a release.         *)
(***************************************************************************)
EXTENDS UsbKb, TLAPS

\* Where the main loop can be, and that it has not been overtaken: between the busy
\* test and the write its endpoint is still free, after the write the host will see
\* no key of the class, and the register holds usbkb_not_released.
LoopInv ==
  /\ main = "loop" => main_step = "test"
  /\ main = "mouse" => main_step = "write"
OwnInv ==
  ~preempted =>
    /\ main_step = "write" => ep[Endpoint(main)] = Free
    /\ main_step \in {"load", "store"} => Seen(main) = None
    /\ main_step = "store" => main_reg = usbkb_not_released
    /\ irq # "idle" => main_step = "test"
AwayInv == ~conn => host = Released

IInv == TypeOK /\ LoopInv /\ OwnInv /\ AwayInv /\ Remembered

\* The reports of an endpoint are about its classes.
LEMMA EndpointFacts ==
  /\ \A c \in Class : Endpoint(c) \in {"kb", "mouse"}
  /\ Endpoint("mouse") = "mouse"
  /\ Endpoint("normal") = "kb" /\ Endpoint("sys") = "mouse" /\ Endpoint("media") = "mouse"
BY DEF Endpoint, Class

\* A report is not the mark of an empty endpoint.
LEMMA ReportFacts ==
  ASSUME NEW c \in Class \cup {"mouse"}, NEW k \in Keys \cup {None}
  PROVE  [class |-> c, key |-> k] \in Report /\ [class |-> c, key |-> k] # Free
BY FreeAssumption DEF Report

\* A report about class c, written to its endpoint when that is free, decides what
\* the host will see of c and leaves the other classes as they were.
LEMMA FilledFacts ==
  ASSUME TypeOK, NEW c \in Class \cup {"mouse"}, NEW k \in Keys \cup {None},
         ep[Endpoint(c)] = Free, ep' = Filled(c, k), host' = host
  PROVE  /\ c \in Class => Seen(c)' = k
         /\ \A d \in Class : d # c => Seen(d)' = Seen(d)
<1>1. Endpoint(c) \in DOMAIN ep
  BY EndpointFacts DEF TypeOK, Class
<1>2. ep'[Endpoint(c)] = [class |-> c, key |-> k]
  BY <1>1 DEF Filled
<1>3. c \in Class => Seen(c)' = k
  BY <1>2, ReportFacts DEF Seen
<1>4. ASSUME NEW d \in Class, d # c
      PROVE  Seen(d)' = Seen(d)
  <2>1. CASE Endpoint(d) = Endpoint(c)
    BY <1>2, <1>4, <2>1 DEF Seen
  <2>2. CASE Endpoint(d) # Endpoint(c)
    <3>1. ep'[Endpoint(d)] = ep[Endpoint(d)]
      BY <2>2, EndpointFacts DEF Filled, TypeOK
    <3>2. QED
      BY <3>1 DEF Seen
  <2>3. QED
    BY <2>1, <2>2
<1>5. QED
  BY <1>3, <1>4

\* A refused report changes nothing the host will see, but that an absent host,
\* which sees nothing, may have its endpoint emptied.
LEMMA RefusalFacts ==
  ASSUME TypeOK, AwayInv, NEW c \in Class, ep' = AfterRefusal(c), host' = host
  PROVE  \A d \in Class : Seen(d)' # None => Seen(d)' = Seen(d)
<1>1. CASE conn
  BY <1>1 DEF AfterRefusal, Seen
<1>2. CASE ~conn
  <2>1. \A d \in Class : host[d] = None
    BY <1>2 DEF AwayInv, Released
  <2>2. ASSUME NEW d \in Class, Seen(d)' # None
        PROVE  Seen(d)' = Seen(d)
    <3>1. Endpoint(d) # Endpoint(c)
      BY <1>2, <2>1, <2>2, EndpointFacts DEF AfterRefusal, Seen, TypeOK
    <3>2. ep'[Endpoint(d)] = ep[Endpoint(d)]
      BY <1>2, <3>1, EndpointFacts DEF AfterRefusal, TypeOK
    <3>3. QED
      BY <3>2 DEF Seen
  <2>3. QED
    BY <2>2
<1>3. QED
  BY <1>1, <1>2

-----------------------------------------------------------------------------
\* At power-on nothing is down and nothing is running.
LEMMA InitIInv == Init => IInv
<1> SUFFICES ASSUME Init PROVE IInv
  OBVIOUS
<1>1. Released \in Frame /\ \A c \in Class : Released[c] = None
  BY DEF Released, Frame, Class
<1>2. TypeOK
  <2>1. /\ ep \in [{"kb", "mouse"} -> Report \cup {Free}]
        /\ ep["kb"] = Free /\ ep["mouse"] = Free
    BY DEF Init
  <2>2. host \in [Class -> Keys \cup {None}]
    BY DEF Init, Released
  <2>3. last_data \in Frame /\ irq_frame \in Frame
    BY <1>1 DEF Init
  <2>4. events \in 0..MaxEvents
    BY KeysAssumption DEF Init
  <2>5. QED
    BY <2>1, <2>2, <2>3, <2>4 DEF Init, TypeOK, Class
<1>3. LoopInv /\ OwnInv /\ AwayInv
  BY DEF Init, LoopInv, OwnInv, AwayInv
<1>4. Remembered
  BY <1>1, EndpointFacts DEF Init, Remembered, Seen
<1>5. QED
  BY <1>2, <1>3, <1>4 DEF IInv

\* A frame arrives: it preempts a main loop that is not at its test.
LEMMA FrameIInv ==
  ASSUME IInv, NEW f \in Frame, usbkb_hid_report(f)
  PROVE  IInv'
<1>1. TypeOK'
  <2>1. last_data' \in Frame /\ irq_frame' \in Frame /\ irq' \in Class \cup {"idle"}
    BY DEF IInv, TypeOK, usbkb_hid_report, irqVars, Class
  <2>2. expired' \in BOOLEAN /\ preempted' \in BOOLEAN
    BY DEF IInv, TypeOK, usbkb_hid_report
  <2>3. events' \in 0..MaxEvents
    BY KeysAssumption DEF IInv, TypeOK, usbkb_hid_report, Event
  <2>4. UNCHANGED <<ep, host, conn, suspended, usbkb_not_released, mainVars>>
    BY DEF usbkb_hid_report
  <2>5. QED
    BY <2>1, <2>2, <2>3, <2>4 DEF IInv, TypeOK, mainVars
<1>2. LoopInv' /\ AwayInv'
  BY DEF IInv, LoopInv, AwayInv, usbkb_hid_report, mainVars
<1>3. \A c \in Class : Seen(c)' = Seen(c)
  BY DEF Seen, usbkb_hid_report
<1>4. OwnInv'
  BY DEF IInv, OwnInv, Seen, usbkb_hid_report, irqVars, mainVars
<1>5. Remembered'
  BY <1>3 DEF IInv, Remembered, usbkb_hid_report
<1>6. QED
  BY <1>1, <1>2, <1>4, <1>5 DEF IInv

\* The interrupt reports one class, the main loop being at its test.
LEMMA ReportIInv ==
  ASSUME IInv, NEW c \in Class, usbkb_report_key(c)
  PROVE  IInv'
<1>1. /\ TypeOK /\ LoopInv /\ OwnInv /\ AwayInv /\ Remembered
      /\ irq = c
      /\ UNCHANGED <<host, conn, suspended, last_data, irq_frame, mainVars, preempted, events>>
  BY DEF IInv, usbkb_report_key
<1>2. irq_frame[c] \in Keys \cup {None}
  BY <1>1 DEF TypeOK, Frame
<1>3. irq' \in Class \cup {"idle"} /\ expired' \in BOOLEAN
  BY <1>1 DEF usbkb_report_key, Class, TypeOK
<1>4. CASE Wanted(c) /\ CanReport(c)
  <2>1. ep' = Filled(c, irq_frame[c]) /\ usbkb_not_released' = AfterReport(c)
    BY <1>4 DEF usbkb_report_key
  <2>2. TypeOK'
    BY <1>1, <1>2, <1>3, <2>1, ReportFacts, EndpointFacts
    DEF TypeOK, Filled, AfterReport, mainVars, Endpoint, Class
  <2>3. /\ Seen(c)' = irq_frame[c]
        /\ \A d \in Class : d # c => Seen(d)' = Seen(d)
    BY <1>1, <1>2, <1>4, <2>1, FilledFacts DEF CanReport
  <2>4. Remembered'
    BY <1>1, <2>1, <2>3 DEF Remembered, AfterReport
  <2>5. OwnInv'
    BY <1>1 DEF OwnInv, mainVars, TypeOK, Class
  <2>6. QED
    BY <1>1, <2>2, <2>4, <2>5 DEF IInv, LoopInv, AwayInv, mainVars
<1>5. CASE ~(Wanted(c) /\ CanReport(c))
  <2>1. UNCHANGED usbkb_not_released /\ (ep' = ep \/ ep' = AfterRefusal(c))
    BY <1>5 DEF usbkb_report_key
  <2>2. TypeOK'
    BY <1>1, <1>3, <2>1, EndpointFacts DEF TypeOK, AfterRefusal, mainVars
  <2>3. \A d \in Class : Seen(d)' # None => Seen(d)' = Seen(d)
    <3>1. CASE ep' = ep
      BY <1>1, <3>1 DEF Seen
    <3>2. CASE ep' = AfterRefusal(c)
      BY <1>1, <3>2, RefusalFacts
    <3>3. QED
      BY <2>1, <3>1, <3>2
  <2>4. Remembered'
    BY <1>1, <2>1, <2>3 DEF Remembered
  <2>5. OwnInv'
    BY <1>1 DEF OwnInv, mainVars, TypeOK, Class
  <2>6. QED
    BY <1>1, <2>2, <2>4, <2>5 DEF IInv, LoopInv, AwayInv, mainVars
<1>6. QED
  BY <1>4, <1>5

\* usbkb_release_check starts with the system keys, and MouseTest finds its endpoint
\* free.
LEMMA MainStartsIInv ==
  ASSUME IInv, usbkb_release_check \/ MouseTest
  PROVE  IInv'
<1>1. TypeOK' /\ LoopInv' /\ AwayInv'
  BY DEF IInv, TypeOK, LoopInv, AwayInv, usbkb_release_check, MouseTest, irqVars, Class
<1>2. OwnInv'
  BY DEF IInv, OwnInv, LoopInv, usbkb_release_check, MouseTest, irqVars, CanReport
<1>3. Remembered'
  BY DEF IInv, Remembered, Seen, usbkb_release_check, MouseTest
<1>4. QED
  BY <1>1, <1>2, <1>3 DEF IInv

\* The busy test of a release.
LEMMA ReleaseTestIInv ==
  ASSUME IInv, NEW c \in Class, ReleaseTest(c)
  PROVE  IInv'
<1>1. /\ TypeOK /\ LoopInv /\ OwnInv /\ AwayInv /\ Remembered
      /\ irq = "idle" /\ main = c /\ main_step = "test"
      /\ UNCHANGED <<host, conn, suspended, usbkb_not_released, last_data, expired,
                     irqVars, main_reg, preempted, events>>
  BY DEF IInv, ReleaseTest
<1>2. CASE c \in usbkb_not_released /\ CanReport(c)
  <2>1. main_step' = "write" /\ UNCHANGED <<ep, main>>
    BY <1>2 DEF ReleaseTest
  <2>2. TypeOK' /\ LoopInv' /\ AwayInv'
    BY <1>1, <2>1 DEF TypeOK, LoopInv, AwayInv, irqVars, Class
  <2>3. OwnInv' /\ Remembered'
    BY <1>1, <1>2, <2>1 DEF OwnInv, CanReport, irqVars, Remembered, Seen
  <2>4. QED
    BY <2>2, <2>3 DEF IInv
<1>3. CASE ~(c \in usbkb_not_released /\ CanReport(c))
  <2>1. /\ ep' = ep \/ ep' = AfterRefusal(c)
        /\ main' = AfterClass(c)
        /\ UNCHANGED main_step
    BY <1>3 DEF ReleaseTest
  <2>2. AfterClass(c) \in Class \cup {"loop"}
    BY DEF AfterClass, Class
  <2>3. TypeOK' /\ LoopInv' /\ AwayInv'
    BY <1>1, <2>1, <2>2, EndpointFacts
    DEF TypeOK, LoopInv, AwayInv, irqVars, Class, AfterRefusal
  <2>4. \A d \in Class : Seen(d)' # None => Seen(d)' = Seen(d)
    <3>1. CASE ep' = ep
      BY <1>1, <3>1 DEF Seen
    <3>2. CASE ep' = AfterRefusal(c)
      BY <1>1, <3>2, RefusalFacts
    <3>3. QED
      BY <2>1, <3>1, <3>2
  <2>5. OwnInv' /\ Remembered'
    BY <1>1, <2>1, <2>4 DEF OwnInv, irqVars, Remembered
  <2>6. QED
    BY <2>3, <2>5 DEF IInv
<1>4. QED
  BY <1>2, <1>3

\* The write of a release: nothing was written to the endpoint since its test.
LEMMA ReleaseWriteIInv ==
  ASSUME IInv, NEW c \in Class, ReleaseWrite(c)
  PROVE  IInv'
<1>1. /\ TypeOK /\ LoopInv /\ OwnInv /\ AwayInv /\ Remembered
      /\ irq = "idle" /\ main = c /\ main_step = "write"
      /\ main_step' = "load"
      /\ ep' = Filled(c, None) \/ ep' = ep
      /\ ep[Endpoint(c)] = Free => ep' = Filled(c, None)
      /\ UNCHANGED <<host, conn, suspended, usbkb_not_released, last_data, expired,
                     irqVars, main, main_reg, preempted, events>>
  BY DEF IInv, ReleaseWrite, Written
<1>2. TypeOK'
  BY <1>1, ReportFacts, EndpointFacts DEF TypeOK, Filled, irqVars, Endpoint, Class
<1>3. LoopInv' /\ AwayInv'
  BY <1>1 DEF LoopInv, AwayInv, Class
<1>4. ~preempted => /\ Seen(c)' = None
                    /\ \A d \in Class : d # c => Seen(d)' = Seen(d)
  BY <1>1, FilledFacts DEF OwnInv
<1>5. OwnInv'
  BY <1>1, <1>4 DEF OwnInv, irqVars
<1>6. Remembered'
  BY <1>1, <1>4 DEF Remembered
<1>7. QED
  BY <1>2, <1>3, <1>5, <1>6 DEF IInv

\* BM_CLR: the register is stored without its class, which the host will not see.
LEMMA ClearIInv ==
  ASSUME IInv, NEW c \in Class, ReleaseLoad(c) \/ ReleaseStore(c)
  PROVE  IInv'
<1>1. AfterClass(c) \in Class \cup {"loop"}
  BY DEF AfterClass, Class
<1>2. TypeOK' /\ LoopInv' /\ AwayInv'
  BY <1>1 DEF IInv, TypeOK, LoopInv, AwayInv, ReleaseLoad, ReleaseStore, irqVars, Class
<1>3. \A d \in Class \cup {"mouse", "loop"} : Seen(d)' = Seen(d)
  BY DEF Seen, ReleaseLoad, ReleaseStore
<1>4. OwnInv'
  BY <1>3 DEF IInv, OwnInv, ReleaseLoad, ReleaseStore, irqVars, TypeOK
<1>5. Remembered'
  <2>1. CASE ReleaseLoad(c)
    BY <1>3, <2>1 DEF IInv, Remembered, ReleaseLoad
  <2>2. CASE ReleaseStore(c)
    BY <1>3, <2>2 DEF IInv, Remembered, OwnInv, ReleaseStore
  <2>3. QED
    BY <2>1, <2>2
<1>6. QED
  BY <1>2, <1>4, <1>5 DEF IInv

\* A mouse report goes to an endpoint that is still free.
LEMMA MouseWriteIInv ==
  ASSUME IInv, MouseWrite
  PROVE  IInv'
<1>1. /\ TypeOK /\ LoopInv /\ OwnInv /\ AwayInv /\ Remembered
      /\ main = "mouse" /\ main_step = "write"
      /\ main' = "loop" /\ main_step' = "test"
      /\ ep' = Filled("mouse", None) \/ ep' = ep
      /\ ep[Endpoint("mouse")] = Free => ep' = Filled("mouse", None)
      /\ UNCHANGED <<host, conn, suspended, usbkb_not_released, last_data, expired,
                     irqVars, main_reg, preempted, events>>
  BY DEF IInv, MouseWrite, Written, LoopInv
<1>2. TypeOK'
  BY <1>1, ReportFacts, EndpointFacts DEF TypeOK, Filled, irqVars, Endpoint, Class
<1>3. LoopInv' /\ AwayInv' /\ OwnInv'
  BY <1>1 DEF LoopInv, AwayInv, OwnInv
<1>4. ~preempted => \A d \in Class : Seen(d)' = Seen(d)
  BY <1>1, FilledFacts DEF OwnInv, Class
<1>5. Remembered'
  BY <1>1, <1>4 DEF Remembered
<1>6. QED
  BY <1>2, <1>3, <1>5 DEF IInv

\* The host collects a report: what it will see stays what it was.
LEMMA CollectIInv ==
  ASSUME IInv, NEW e \in {"kb", "mouse"}, HostCollects(e)
  PROVE  IInv'
<1>1. /\ TypeOK /\ LoopInv /\ OwnInv /\ AwayInv /\ Remembered
      /\ conn /\ ep[e] # Free
      /\ host' = IF ep[e].class \in Class
                 THEN [host EXCEPT ![ep[e].class] = ep[e].key] ELSE host
      /\ ep' = [ep EXCEPT ![e] = Free]
      /\ UNCHANGED <<conn, suspended, usbkb_not_released, last_data, expired, irqVars,
                     mainVars, preempted, events>>
  BY DEF IInv, HostCollects
<1>2. ep[e] \in Report /\ (ep[e].class \in Class => Endpoint(ep[e].class) = e)
  BY <1>1, EndpointFacts DEF TypeOK, Report, Class, Endpoint
<1>3. TypeOK'
  BY <1>1, <1>2 DEF TypeOK, irqVars, mainVars, Report
<1>4. \A d \in Class : Seen(d)' = Seen(d)
  <2>1. ASSUME NEW d \in Class PROVE Seen(d)' = Seen(d)
    <3>1. CASE Endpoint(d) = e
      BY <1>1, <1>2, <3>1 DEF Seen, TypeOK
    <3>2. CASE Endpoint(d) # e
      BY <1>1, <1>2, <3>2, EndpointFacts DEF Seen, TypeOK
    <3>3. QED
      BY <3>1, <3>2
  <2>2. QED
    BY <2>1
<1>5. OwnInv'
  <2>1. ep[Endpoint(main)] = Free => ep'[Endpoint(main)] = Free
    BY <1>1 DEF TypeOK
  <2>2. main_step \in {"load", "store"} => main \in Class
    BY <1>1 DEF LoopInv, TypeOK
  <2>3. main_step \in {"load", "store"} => Seen(main)' = Seen(main)
    BY <1>1, <1>4, <2>2 DEF mainVars
  <2>4. QED
    BY <1>1, <2>1, <2>3 DEF OwnInv, irqVars, mainVars
<1>6. LoopInv' /\ AwayInv' /\ Remembered'
  BY <1>1, <1>4 DEF LoopInv, AwayInv, Remembered, mainVars
<1>7. QED
  BY <1>3, <1>5, <1>6 DEF IInv

\* Steps that leave the endpoints alone, or empty them, and tell the host of no key.
LEMMA QuietIInv ==
  ASSUME IInv,
         \/ HostConnects \/ HostDisconnects \/ UsbReset \/ HostSuspends \/ HostResumes
         \/ TimePasses \/ UNCHANGED vars
  PROVE  IInv'
<1>1. /\ TypeOK /\ LoopInv /\ OwnInv /\ AwayInv /\ Remembered
      /\ ep' = ep \/ (ep' = [e \in {"kb", "mouse"} |-> Free] /\ main = "loop")
      /\ host' = host \/ host' = Released
      /\ ~conn' => (host' = Released \/ (host' = host /\ conn' = conn))
      /\ ep' # ep => host' = Released
      /\ UNCHANGED <<usbkb_not_released, last_data, irqVars, mainVars, preempted>>
  BY DEF IInv, HostConnects, HostDisconnects, UsbReset, HostSuspends, HostResumes,
         TimePasses, vars, irqVars, mainVars
<1>2. Released \in [Class -> Keys \cup {None}] /\ \A d \in Class : Released[d] = None
  BY DEF Released
<1>3. TypeOK'
  <2>1. conn' \in BOOLEAN /\ suspended' \in BOOLEAN /\ expired' \in BOOLEAN
    BY <1>1 DEF TypeOK, HostConnects, HostDisconnects, UsbReset, HostSuspends,
                HostResumes, TimePasses, vars
  <2>2. events' \in 0..MaxEvents
    BY <1>1, KeysAssumption DEF TypeOK, HostConnects, HostDisconnects, UsbReset,
                HostSuspends, HostResumes, TimePasses, vars, Event
  <2>3. QED
    BY <1>1, <1>2, <2>1, <2>2 DEF TypeOK, irqVars, mainVars
<1>4. \A d \in Class : Seen(d)' # None => Seen(d)' = Seen(d)
  BY <1>1, <1>2, EndpointFacts DEF Seen
<1>5. LoopInv' /\ AwayInv' /\ Remembered'
  BY <1>1, <1>4 DEF LoopInv, AwayInv, Remembered, mainVars
<1>6. OwnInv'
  <2>1. main_step \in {"load", "store"} => main \in Class
    BY <1>1 DEF LoopInv, TypeOK
  <2>2. main_step = "write" => ep' = ep
    BY <1>1 DEF LoopInv
  <2>3. QED
    BY <1>1, <1>4, <2>1, <2>2 DEF OwnInv, irqVars, mainVars
<1>7. QED
  BY <1>3, <1>5, <1>6 DEF IInv

-----------------------------------------------------------------------------
\* IInv is an inductive invariant.
THEOREM Invariance == Spec => []IInv
<1>1. IInv /\ [Next]_vars => IInv'
  BY FrameIInv, ReportIInv, MainStartsIInv, ReleaseTestIInv, ReleaseWriteIInv,
     ClearIInv, MouseWriteIInv, CollectIInv, QuietIInv
  DEF Next, Irq, MainLoop, ReleaseSteps, Host
<1>2. QED
  BY InitIInv, <1>1, PTL DEF Spec

\* Every variable keeps its type; the keyboard endpoint holds only reports of normal
\* keys and the shared one never does.
THEOREM TypeCorrect == Spec => []TypeOK
<1>1. IInv => TypeOK
  BY DEF IInv
<1>2. QED
  BY Invariance, <1>1, PTL

\* As long as no interrupt comes between the busy test and the last store of a
\* release, or within a mouse report, usbkb_not_released remembers every key that
\* is down for the host or about to be.
THEOREM RememberedHolds == Spec => []Remembered
<1>1. IInv => Remembered
  BY DEF IInv
<1>2. QED
  BY Invariance, <1>1, PTL
=============================================================================
