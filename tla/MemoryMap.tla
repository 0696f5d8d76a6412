------------------------------ MODULE MemoryMap ------------------------------
(***************************************************************************)
(* Where main() puts its devices on the bus: the addresses and register    *)
(* files of utils/include/MLDR187.h, and the address ranges and            *)
(* priorities each device answers for itself.                              *)
(***************************************************************************)
EXTENDS Integers, Sequences

K == 1024
M == 1048576

(* MLDR187.h: base addresses.                                              *)
MDR_PLIC_PRI_BASE == 192 * M + 4
MDR_PLIC_ICC      == 194 * M + 4

\* The peripherals, one every 32 Kbytes; "" is a gap.
Peripherals ==
    << "SPI1", "UART1", "UART2", "EEPROM_CTRL", "RST_CLK", "DMA", "I2C", "UART3",
       "ADC", "WWDG", "IWDG", "POWER", "BKP", "ADCUI", "TIMER1", "TIMER2",
       "GPIO1", "GPIO2", "GPIO3", "CRC", "", "SENSORS", "CLK_MEASURE", "RANDOM",
       "ISO7816", "SPI2", "SPI3", "TIMER3", "TIMER4", "UART4", "GPIO4" >>

Base(i) == 1024 * M + (i - 1) * 32 * K

(* MLDR187.h: register files, a word for each register.                    *)
MDR_SSP == << "CR0", "CR1", "DR", "SR", "CPSR", "IMSC", "RIS", "MIS", "ICR", "DMACR" >>

\* RFU6 has 13 words.
MDR_UART ==
    << "DR", "RSR_ECR", "RFU1", "RFU2", "RFU3", "RFU4", "FR", "RFU5", "ILPR", "IBRD", "FBRD", "LCR_H",
       "CR", "IFLS", "IMSC", "RIS", "MIS", "ICR", "DMACR", "RFU6_0", "RFU6_1", "RFU6_2", "RFU6_3", "RFU6_4",
       "RFU6_5", "RFU6_6", "RFU6_7", "RFU6_8", "RFU6_9", "RFU6_10", "RFU6_11", "RFU6_12", "TCR" >>

MDR_EEPROM_CTRL == << "CMD", "ADR", "DI", "DO", "KEY" >>

MDR_RST_CLK ==
    << "CLOCK_STATUS", "PLL_CONTROL", "HS_CONTROL", "CPU_CLOCK", "PER1_CLOCK", "ADC_CLOCK", "RTC_CLOCK",
       "PER2_CLOCK", "RFU", "TIM_CLOCK", "UART_CLOCK", "SSP_CLOCK" >>

MDR_BKP ==
    << "WPR", "LDO", "CLK", "RTC", "WUTR", "PREDIV_S", "PRL", "ALRM", "CS", "TR", "DR", "ALRMAR", "ALRMBR",
       "TSTR1", "TSTR2", "TSTR3", "TSDR1", "TSDR2", "TSDR3", "TAFCR", "MEM" >>

MDR_TIM ==
    << "CNT", "PSG", "ARR", "CNTRL", "CCR1", "CCR2", "CCR3", "CCR4",
       "CH1_CNTRL", "CH2_CNTRL", "CH3_CNTRL", "CH4_CNTRL", "CH1_CNTRL1", "CH2_CNTRL1", "CH3_CNTRL1", "CH4_CNTRL1",
       "CH1_DTG", "CH2_DTG", "CH3_DTG", "CH4_DTG", "BRKETR_CNTRL", "STATUS", "IE", "DMA_RE",
       "CH1_CNTRL2", "CH2_CNTRL2", "CH3_CNTRL2", "CH4_CNTRL2", "CCR11", "CCR21", "CCR31", "CCR41",
       "DMA_RE1", "DMA_RE2", "DMA_RE3", "DMA_RE4" >>

MDR_GPIO ==
    << "RXTX", "OE", "FUNC", "ANALOG", "PULL", "RFU", "PWR", "RFU2", "SETTX", "CLRTX", "RDTX" >>

sizeof(regs) == 4 * Len(regs)

-----------------------------------------------------------------------------
(* The devices of main(), by the place of their registers in Peripherals.  *)

SPI_FLASH      == 1
INTERNAL_FLASH == 4
RST_CLK        == 5
UART3          == 8
BKP            == 13
PORTA          == 17
PORTB          == 18
PORTC          == 19
SPI_DISPLAY    == 27
TIM4           == 29
PORTD          == 31

Created ==
    { SPI_FLASH, INTERNAL_FLASH, RST_CLK, UART3, BKP, PORTA, PORTB, PORTC, SPI_DISPLAY, TIM4, PORTD }

registers(i) ==
    CASE i \in {SPI_FLASH, SPI_DISPLAY}         -> MDR_SSP
      [] i = INTERNAL_FLASH                     -> MDR_EEPROM_CTRL
      [] i = RST_CLK                            -> MDR_RST_CLK
      [] i = UART3                              -> MDR_UART
      [] i = BKP                                -> MDR_BKP
      [] i \in {PORTA, PORTB, PORTC, PORTD}     -> MDR_GPIO
      [] i = TIM4                               -> MDR_TIM

Range(start, end, priority) == [start |-> start, end |-> end, priority |-> priority]

\* get_start_addr, get_end_addr and get_priority of a register file.
Registers(i) == Range(Base(i), Base(i) + sizeof(registers(i)), 1)

PLIC        == Range(MDR_PLIC_PRI_BASE, MDR_PLIC_ICC + 4, 1)
debugModule == Range(0, 4 * K - 1, 0)

Memory(base, size) == Range(base, base + size, 0)

MEM_FLASH    == Memory(256 * M, 256 * K)
MEM_RAM_TCMA == Memory(2048 * M, 64 * K)
MEM_RAM_TCMB == Memory(2048 * M + 64 * K, 32 * K)
MEM_RAM_AHB  == Memory(512 * M, 16 * K)
MEM_PER_AHB  == Memory(1024 * M, M)

Memories == { MEM_FLASH, MEM_RAM_TCMA, MEM_RAM_TCMB, MEM_RAM_AHB, MEM_PER_AHB }

Devices == { Registers(i) : i \in Created } \cup Memories \cup { PLIC, debugModule }

-----------------------------------------------------------------------------
(* Bus::get_device.                                                        *)

is_within(d, addr) == d.start <= addr /\ addr < d.end

\* What get_device may return, in whatever order the devices were added.
Found(addr) ==
    { d \in Devices : is_within(d, addr) /\
                      \A e \in Devices : is_within(e, addr) => e.priority <= d.priority }
=============================================================================
