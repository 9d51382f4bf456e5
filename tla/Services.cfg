CONSTANTS
    t1 = t1  t2 = t2  t3 = t3  n1 = n1  n2 = n2  n3 = n3  n4 = n4
    m = m  c = c  d = d  k1 = k1  k2 = k2  k3 = k3  e1 = e1
    e2 = e2  e3 = e3  x1 = x1  x2 = x2  q1 = q1  q2 = q2  d1 = d1
    d2 = d2  u1 = u1  u2 = u2  u3 = u3  i1 = i1  i2 = i2  p1 = p1  p2 = p2  Null = Null
    Services = {"spinning", "lists", "tracing", "results", "kernels", "buffers", "injection", "handles", "memory", "pool", "dma", "cache", "profiler"}
SPECIFICATION Spec
VIEW View
INVARIANTS TypeOK NobodyForgotten WritesPackets ListsAgree CountsExact KernelsExact BuffersExact RegionsExact
PROPERTIES FifoPerAddress MonitorSpec Returns LruSpec
CHECK_DEADLOCK FALSE
