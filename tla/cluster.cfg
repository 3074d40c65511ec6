SPECIFICATION Spec
CONSTANTS
    d1 = d1
    d2 = d2
    d3 = d3
    DB <- ThreeNodes
    InitialDB <- TwoNodes
    Others <- LoadgenOnly
    IPs = {ip1, ip2, ip3}
    None = None
    MaxFaults = 2
CHECK_DEADLOCK FALSE
INVARIANTS ApplyConverges RunningNodesMeet
 
